---- MODULE Spec2Model ----
(***************************************************************************)
(* A model of lox-ts, a tree-walking interpreter for Lox: the driver       *)
(* (Lox.main / runFile / runPrompt / run), the ErrorReporter, the          *)
(* Resolver, the Environment chain, the runtime values (LoxFun, LoxClass,  *)
(* LoxInstance) and the Interpreter.                                       *)
(*                                                                         *)
(* The resolver and the interpreter are recursive visitors; they are       *)
(* modelled as recursive operators over the syntax tree that thread the    *)
(* resolver state, respectively the interpreter state, through every       *)
(* visit.  A thrown JavaScript exception is the field sig of the result of *)
(* a visit.  The driver is the state machine: one action per phase of      *)
(* run(source) and one per top-level statement of interpret().             *)
(***************************************************************************)
EXTENDS Integers, Sequences, FiniteSets, TLC

VARIABLES
  phase,            \* position of the driver (Lox.main, runFile, runPrompt, run)
  argv,             \* process.argv, as [len, arg]
  mode,             \* "none" | "file" | "prompt"
  source,           \* the source text handed to run(), as its parse
  statements,       \* the statement list parser.parse() returned
  ip,               \* index of the next statement of interpret()'s loop
  hadError,         \* ErrorReporter.hadError
  hadRuntimeError,  \* ErrorReporter.hadRuntimeError
  stderr,           \* lines written by console.error
  interpreter,      \* the Interpreter object and the heap it owns
  exitCode,         \* process exit code, NoExit while the process runs
  lines,            \* number of prompt lines read so far
  hist,             \* history of the current run(): what it did
  scanner,          \* a Scanner at work on a text, one scanToken() at a time
  parser            \* a Parser at work on a token list, one declaration at a time

vars == <<phase, argv, mode, source, statements, ip, hadError, hadRuntimeError,
          stderr, interpreter, exitCode, lines, hist, scanner, parser>>

\* the variables of the front end, which the driver runs in one step
front == <<scanner, parser>>

-----------------------------------------------------------------------------
(* Bounds of the model *)

MaxArgs == 2        \* command-line arguments after the script name
MaxLit == 2         \* number literals of the programs range over 0..MaxLit
MaxCalls == 2       \* how often a program calls its closure
MaxLines == 2       \* prompt lines read before the model stops reading

NoExit == -1        \* exitCode while the process is running

-----------------------------------------------------------------------------
(* Runtime values: Obj of token.ts, plus JavaScript's undefined *)

Nil == [t |-> "nil", n |-> 0, s |-> ""]
Undefined == [t |-> "undefined", n |-> 0, s |-> ""]
Bool(b) == [t |-> "bool", n |-> IF b THEN 1 ELSE 0, s |-> ""]
Num(k) == [t |-> "num", n |-> k, s |-> ""]
Str(x) == [t |-> "str", n |-> 0, s |-> x]
ClockFn == [t |-> "native", n |-> 0, s |-> ""]
FunRef(id) == [t |-> "fun", n |-> id, s |-> ""]
ClassRef(id) == [t |-> "class", n |-> id, s |-> ""]
InstanceRef(id) == [t |-> "instance", n |-> id, s |-> ""]

EmptyMap == [k \in {} |-> Nil]
MapSet(m, k, v) == [x \in (DOMAIN m) \cup {k} |-> IF x = k THEN v ELSE m[x]]
MapHas(m, k) == k \in DOMAIN m

-----------------------------------------------------------------------------
(* Syntax trees.  Every Variable, Assign, This and Super node carries the   *)
(* identity id of the object the parser created for it.                     *)

NoNode == [k |-> "null"]
LiteralExpr(value) == [k |-> "Literal", value |-> value]
GroupingExpr(expression) == [k |-> "Grouping", expression |-> expression]
UnaryExpr(operator, right) == [k |-> "Unary", operator |-> operator, right |-> right]
BinaryExpr(left, operator, right) ==
  [k |-> "Binary", left |-> left, operator |-> operator, right |-> right]
LogicalExpr(left, operator, right) ==
  [k |-> "Logical", left |-> left, operator |-> operator, right |-> right]
VariableExpr(id, name) == [k |-> "Variable", id |-> id, name |-> name]
AssignExpr(id, name, value) == [k |-> "Assign", id |-> id, name |-> name, value |-> value]
CallExpr(callee, args) == [k |-> "Call", callee |-> callee, args |-> args]
GetExpr(object, name) == [k |-> "Get", object |-> object, name |-> name]
SetExpr(object, name, value) ==
  [k |-> "Set", object |-> object, name |-> name, value |-> value]
ThisExpr(id) == [k |-> "This", id |-> id, name |-> "this"]
SuperExpr(id, method) == [k |-> "Super", id |-> id, method |-> method]

BlockStmt(stmts) == [k |-> "Block", statements |-> stmts]
ClassStmt(name, superclass, methods) ==
  [k |-> "Class", name |-> name, superclass |-> superclass, methods |-> methods]
ExpressionStmt(expression) == [k |-> "Expression", expression |-> expression]
FunStmt(name, params, body) == [k |-> "Fun", name |-> name, params |-> params, body |-> body]
IfStmt(condition, thenBranch, elseBranch) ==
  [k |-> "If", condition |-> condition, thenBranch |-> thenBranch,
   elseBranch |-> elseBranch]
PrintStmt(expression) == [k |-> "Print", expression |-> expression]
ReturnStmt(value) == [k |-> "Return", value |-> value]
VarStmt(name, initializer) == [k |-> "Var", name |-> name, initializer |-> initializer]
WhileStmt(condition, body) == [k |-> "While", condition |-> condition, body |-> body]

-----------------------------------------------------------------------------
(* ErrorReporter (error-reporter.ts).  Every source of the model is one     *)
(* line long, so every token is on line TokenLine.                          *)

TokenLine == 1

ErrorReporter_report(line, where, message) ==
  "[line " \o ToString(line) \o "] Error " \o where \o ": " \o message

ErrorReporter_scannerError(line, message) == ErrorReporter_report(line, "", message)

ErrorReporter_parserError(atEnd, lexeme, message) ==
  IF atEnd THEN ErrorReporter_report(TokenLine, " at end", message)
  ELSE ErrorReporter_report(TokenLine, " at '" \o lexeme \o "'", message)

ErrorReporter_resolverError(lexeme, message) ==
  ErrorReporter_report(TokenLine, lexeme, message)

ErrorReporter_runtimeError(message) ==
  message \o "\n[line " \o ToString(TokenLine) \o "]"

-----------------------------------------------------------------------------
(* Scanner (scanner.ts).  A source text is a sequence of characters; the    *)
(* positions #start and #current count the characters before them.          *)

NUL == "NUL"        \* "\0", which #peek yields at the end of the source

Digits == {"0", "1", "2", "3", "4", "5", "6", "7", "8", "9"}

Letters ==
  {"a", "b", "c", "d", "e", "f", "g", "h", "i", "j", "k", "l", "m", "n", "o", "p",
   "q", "r", "s", "t", "u", "v", "w", "x", "y", "z", "_",
   "A", "B", "C", "D", "E", "F", "G", "H", "I", "J", "K", "L", "M", "N", "O", "P",
   "Q", "R", "S", "T", "U", "V", "W", "X", "Y", "Z"}

Scanner_keywords ==
  ("and" :> "AND") @@ ("class" :> "CLASS") @@ ("else" :> "ELSE") @@
  ("false" :> "FALSE") @@ ("for" :> "FOR") @@ ("fun" :> "FUN") @@ ("if" :> "IF") @@
  ("nil" :> "NIL") @@ ("or" :> "OR") @@ ("print" :> "PRINT") @@
  ("return" :> "RETURN") @@ ("super" :> "SUPER") @@ ("this" :> "THIS") @@
  ("true" :> "TRUE") @@ ("var" :> "VAR") @@ ("while" :> "WHILE")

\* the tokens of one character, by character
Scanner_single ==
  ("(" :> "LEFT_PAREN") @@ (")" :> "RIGHT_PAREN") @@ ("{" :> "LEFT_BRACE") @@
  ("}" :> "RIGHT_BRACE") @@ ("," :> "COMMA") @@ ("." :> "DOT") @@ ("-" :> "MINUS") @@
  ("+" :> "PLUS") @@ (";" :> "SEMICOLON") @@ ("*" :> "STAR")

\* the tokens of one character that another token begins with, followed by =
Scanner_double ==
  ("!" :> <<"BANG_EQUAL", "BANG">>) @@ ("=" :> <<"EQUAL_EQUAL", "EQUAL">>) @@
  ("<" :> <<"LESS_EQUAL", "LESS">>) @@ (">" :> <<"GREATER_EQUAL", "GREATER">>)

\* new Token(type, lexeme, literal, line)
Token(type, lexeme, literal, line) ==
  [type |-> type, lexeme |-> lexeme, literal |-> literal, line |-> line]

NewScanner(text) ==
  [source |-> text, tokens |-> <<>>, start |-> 0, current |-> 0, line |-> 1,
   errors |-> <<>>, returned |-> FALSE]

RECURSIVE Substring(_, _, _)
\* text.substring(from, to)
Substring(text, from, to) ==
  IF from >= to \/ from >= Len(text) THEN ""
  ELSE text[from + 1] \o Substring(text, from + 1, to)

RECURSIVE DigitsValue(_, _, _, _)
\* the number the digits text[from+1 .. to] write, after the digits of acc
DigitsValue(text, from, to, acc) ==
  IF from >= to THEN acc
  ELSE DigitsValue(text, from + 1, to,
         acc * 10 + CHOOSE d \in 0..9 : ToString(d) = text[from + 1])

RECURSIVE FractionEnd(_, _, _)
\* the end of the fraction text[from+1 .. to] without its trailing zeros
FractionEnd(text, from, to) ==
  IF to > from /\ text[to] = "0" THEN FractionEnd(text, from, to - 1) ELSE to

RECURSIVE IndexOfDot(_, _, _)
IndexOfDot(text, from, to) ==
  IF from >= to THEN to
  ELSE IF text[from + 1] = "." THEN from ELSE IndexOfDot(text, from + 1, to)

\* Number.parseFloat(text.substring(from, to)) for the text of a NUMBER
\* token: the integer part as n and the fraction, when it is not zero, as s
ParseFloat(text, from, to) ==
  LET dot == IndexOfDot(text, from, to) IN
  [t |-> "num", n |-> DigitsValue(text, from, dot, 0),
   s |-> IF dot >= to THEN ""
         ELSE Substring(text, dot + 1, FractionEnd(text, dot + 1, to))]

Scanner_isAtEnd(sc) == sc.current >= Len(sc.source)

Scanner_isDigit(c) == c \in Digits
Scanner_isAlpha(c) == c \in Letters
Scanner_isAlphaNumeric(c) == Scanner_isAlpha(c) \/ Scanner_isDigit(c)

Scanner_peek(sc) == IF Scanner_isAtEnd(sc) THEN NUL ELSE sc.source[sc.current + 1]

Scanner_peekNext(sc) ==
  IF sc.current + 1 >= Len(sc.source) THEN NUL ELSE sc.source[sc.current + 2]

Scanner_advance(sc) == [sc EXCEPT !.current = @ + 1]

\* [matched, sc]
Scanner_match(sc, expected) ==
  IF Scanner_isAtEnd(sc) THEN [matched |-> FALSE, sc |-> sc]
  ELSE IF sc.source[sc.current + 1] # expected THEN [matched |-> FALSE, sc |-> sc]
  ELSE [matched |-> TRUE, sc |-> Scanner_advance(sc)]

Scanner_addToken(sc, type, literal) ==
  [sc EXCEPT !.tokens =
     Append(@, Token(type, Substring(sc.source, sc.start, sc.current), literal, sc.line))]

\* a scanner that gives up at the first error: the rest of the text is skipped
Scanner_error_giveUp(sc, message) ==
  [sc EXCEPT !.errors = Append(@, ErrorReporter_scannerError(sc.line, message)),
             !.current = Len(sc.source)]

Scanner_error(sc, message) ==
  [sc EXCEPT !.errors = Append(@, ErrorReporter_scannerError(sc.line, message))]

RECURSIVE Scanner_skipComment(_)
\* while (peek() !== "\n" && !isAtEnd()) advance();
Scanner_skipComment(sc) ==
  IF Scanner_peek(sc) # "\n" /\ ~Scanner_isAtEnd(sc)
  THEN Scanner_skipComment(Scanner_advance(sc)) ELSE sc

RECURSIVE Scanner_skipAlphaNumeric(_)
Scanner_skipAlphaNumeric(sc) ==
  IF Scanner_isAlphaNumeric(Scanner_peek(sc))
  THEN Scanner_skipAlphaNumeric(Scanner_advance(sc)) ELSE sc

RECURSIVE Scanner_skipDigits(_)
Scanner_skipDigits(sc) ==
  IF Scanner_isDigit(Scanner_peek(sc)) THEN Scanner_skipDigits(Scanner_advance(sc))
  ELSE sc

\* the token of the identifier or keyword that ends at sc.current
Scanner_word(sc) ==
  Scanner_addToken(sc,
    IF Substring(sc.source, sc.start, sc.current) \in DOMAIN Scanner_keywords
    THEN Scanner_keywords[Substring(sc.source, sc.start, sc.current)]
    ELSE "IDENTIFIER", Nil)

Scanner_identifier(sc) == Scanner_word(Scanner_skipAlphaNumeric(sc))

\* the NUMBER token that ends at sc.current
Scanner_numberToken(sc) ==
  Scanner_addToken(sc, "NUMBER", ParseFloat(sc.source, sc.start, sc.current))

\* #number once the digits of the integer part are consumed
Scanner_fraction(sc) ==
  IF Scanner_peek(sc) = "." /\ Scanner_isDigit(Scanner_peekNext(sc))
  THEN Scanner_numberToken(Scanner_skipDigits(Scanner_advance(sc)))
  ELSE Scanner_numberToken(sc)

Scanner_number(sc) == Scanner_fraction(Scanner_skipDigits(sc))

RECURSIVE Scanner_skipString(_)
\* while (peek() !== '"' && !isAtEnd()) { if (peek() === "\n") line++; advance(); }
Scanner_skipString(sc) ==
  IF Scanner_peek(sc) # "\"" /\ ~Scanner_isAtEnd(sc)
  THEN Scanner_skipString(
         Scanner_advance(IF Scanner_peek(sc) = "\n" THEN [sc EXCEPT !.line = @ + 1]
                         ELSE sc))
  ELSE sc

\* #string once the loop has stopped
Scanner_closeString(sc) ==
  IF Scanner_isAtEnd(sc) THEN Scanner_error(sc, "Unterminated string.")
  ELSE Scanner_addToken(Scanner_advance(sc), "STRING",
         Str(Substring(sc.source, sc.start + 1, sc.current)))

Scanner_string(sc) == Scanner_closeString(Scanner_skipString(sc))

\* the token of one or two characters that begins with c
Scanner_operator(sc, c) ==
  Scanner_addToken(Scanner_match(sc, "=").sc,
    IF Scanner_match(sc, "=").matched THEN Scanner_double[c][1]
    ELSE Scanner_double[c][2], Nil)

\* the switch of #scanToken on the character c just consumed
Scanner_switch(sc, c) ==
  CASE c \in DOMAIN Scanner_single -> Scanner_addToken(sc, Scanner_single[c], Nil)
    [] c \in DOMAIN Scanner_double -> Scanner_operator(sc, c)
    [] c = "/" ->
         IF Scanner_match(sc, "/").matched
         THEN Scanner_skipComment(Scanner_match(sc, "/").sc)
         ELSE Scanner_addToken(sc, "SLASH", Nil)
    [] c \in {" ", "\r", "\t"} -> sc
    [] c = "\n" -> [sc EXCEPT !.line = @ + 1]
    [] c = "\"" -> Scanner_string(sc)
    [] OTHER ->
         IF Scanner_isDigit(c) THEN Scanner_number(sc)
         ELSE IF Scanner_isAlpha(c) THEN Scanner_identifier(sc)
         ELSE Scanner_error(sc, "Unexpected character.")

\* one pass of the loop of scanTokens: this.#start = this.#current; #scanToken()
Scanner_scanToken(sc) ==
  Scanner_switch(Scanner_advance([sc EXCEPT !.start = sc.current]),
                 sc.source[sc.current + 1])

\* the end of scanTokens: the EOF token
Scanner_finish(sc) ==
  [sc EXCEPT !.tokens = Append(@, Token("EOF", "", Nil, sc.line)), !.returned = TRUE]

RECURSIVE Scanner_scanTokens(_)
Scanner_scanTokens(sc) ==
  IF Scanner_isAtEnd(sc) THEN Scanner_finish(sc)
  ELSE Scanner_scanTokens(Scanner_scanToken(sc))

\* no Scanner is at work
NoScanner == NewScanner(<<>>)

-----------------------------------------------------------------------------
(* Parser (parser.ts).  #current counts the tokens before the next one.  An  *)
(* operation yields the parser after it, "ok" or "ParseError" (the thrown    *)
(* sentinel), and the node it returns.  A node made from a token is          *)
(* identified by the position of that token.  syncs is history: one entry    *)
(* for every error caught at #declaration.                                   *)

NewParser(tokens) ==
  [tokens |-> tokens, current |-> 0, statements |-> <<>>, errors |-> <<>>,
   syncs |-> <<>>, returned |-> FALSE,
   \* history: the highest value current has had (#peek reads tokens[current],
   \* #previous tokens[current - 1]) and the passes of the loops of parse()
   \* and #block
   high |-> 0, passes |-> {}]

\* tokens.at(i) where there is no token
NoToken == Token("undefined", "", Nil, 0)

POk(ps, node) == [ps |-> ps, sig |-> "ok", node |-> node]
PThrow(ps) == [ps |-> ps, sig |-> "ParseError", node |-> NoNode]

Parser_peek(ps) ==
  IF ps.current + 1 \in DOMAIN ps.tokens THEN ps.tokens[ps.current + 1] ELSE NoToken

Parser_previous(ps) ==
  IF ps.current \in DOMAIN ps.tokens THEN ps.tokens[ps.current] ELSE NoToken

Parser_isAtEnd(ps) == Parser_peek(ps).type = "EOF"

Parser_check(ps, type) ==
  IF Parser_isAtEnd(ps) THEN FALSE ELSE Parser_peek(ps).type = type

Parser_advance(ps) ==
  IF ~Parser_isAtEnd(ps)
  THEN [ps EXCEPT !.current = @ + 1,
                  !.high = IF @ < ps.current + 1 THEN ps.current + 1 ELSE @]
  ELSE ps

\* #match(...types): the first type that #check accepts is consumed
Parser_match(ps, types) ==
  IF \E type \in types : Parser_check(ps, type)
  THEN [matched |-> TRUE, ps |-> Parser_advance(ps)]
  ELSE [matched |-> FALSE, ps |-> ps]

Parser_error(ps, token, message) ==
  [ps EXCEPT !.errors =
     Append(@, ErrorReporter_parserError(token.type = "EOF", token.lexeme, message))]

\* the node of #consume is the position of the token it consumed
Parser_consume(ps, type, message) ==
  IF Parser_check(ps, type) THEN POk(Parser_advance(ps), Parser_advance(ps).current)
  ELSE PThrow(Parser_error(ps, Parser_peek(ps), message))

Parser_syncTypes == {"CLASS", "FUN", "VAR", "FOR", "IF", "WHILE", "PRINT", "RETURN"}

RECURSIVE Parser_syncLoop(_)
Parser_syncLoop(ps) ==
  IF Parser_isAtEnd(ps) THEN ps
  ELSE IF Parser_previous(ps).type = "SEMICOLON" THEN ps
  ELSE IF Parser_peek(ps).type \in Parser_syncTypes THEN ps
  ELSE Parser_syncLoop(Parser_advance(ps))

\* a #synchronize that checks where it stands before it discards a token
Parser_synchronize_checkFirst(ps) == Parser_syncLoop(ps)

Parser_synchronize(ps) == Parser_syncLoop(Parser_advance(ps))

\* const r = x; ...: the value of a call is computed once and then named
Bind(x, Rest(_)) == CHOOSE y \in {Rest(v) : v \in {x}} : TRUE

\* the rest of an operation, which a step that throws skips
Then(r, Rest(_)) ==
  CHOOSE y \in {IF v.sig # "ok" THEN v ELSE Rest(v) : v \in {r}} : TRUE

\* the levels of binary operators, from #or down to #factor
Parser_operators ==
  [or |-> {"OR"}, and |-> {"AND"}, equality |-> {"BANG_EQUAL", "EQUAL_EQUAL"},
   comparison |-> {"GREATER", "GREATER_EQUAL", "LESS", "LESS_EQUAL"},
   term |-> {"MINUS", "PLUS"}, factor |-> {"SLASH", "STAR"}]

Parser_operandLevel ==
  [or |-> "and", and |-> "equality", equality |-> "comparison",
   comparison |-> "term", term |-> "factor", factor |-> "unary"]

\* new Expr.Logical in #or and #and, new Expr.Binary below them
Parser_newBinary(level, left, operator, right) ==
  IF level \in {"or", "and"} THEN LogicalExpr(left, operator.lexeme, right)
  ELSE BinaryExpr(left, operator.lexeme, right)

MaxArguments == 255

RECURSIVE Parser_expression(_), Parser_assignment(_), Parser_level(_, _),
          Parser_loop(_, _, _), Parser_unary(_), Parser_call(_), Parser_callLoop(_, _),
          Parser_finishCall(_, _), Parser_arguments(_, _), Parser_primary(_)

Parser_expression(ps) == Parser_assignment(ps)

\* #assignment once the target expr and the value are parsed
Parser_assign(ps, expr, equals, value) ==
  IF expr.k = "Variable" THEN POk(ps, AssignExpr(equals, expr.name, value))
  ELSE IF expr.k = "Get" THEN POk(ps, SetExpr(expr.object, expr.name, value))
  ELSE POk(Parser_error(ps, ps.tokens[equals], "Invalid assignment target."), expr)

Parser_assignment(ps) ==
  Then(Parser_level(ps, "or"), LAMBDA e :
    IF ~Parser_match(e.ps, {"EQUAL"}).matched THEN e
    ELSE Then(Parser_assignment(Parser_advance(e.ps)), LAMBDA v :
           Parser_assign(v.ps, e.node, Parser_advance(e.ps).current, v.node)))

\* #or, #and, #equality, #comparison, #term, #factor: an operand, then the loop
Parser_level(ps, level) ==
  IF level = "unary" THEN Parser_unary(ps)
  ELSE Then(Parser_level(ps, Parser_operandLevel[level]), LAMBDA e :
         Parser_loop(e.ps, e.node, level))

\* while (this.#match(...)) { operator; right operand; expr = new ... }
Parser_loop(ps, expr, level) ==
  IF ~Parser_match(ps, Parser_operators[level]).matched THEN POk(ps, expr)
  ELSE Then(Parser_level(Parser_advance(ps), Parser_operandLevel[level]), LAMBDA r :
         Parser_loop(r.ps,
           Parser_newBinary(level, expr, Parser_previous(Parser_advance(ps)), r.node),
           level))

Parser_or(ps) == Parser_level(ps, "or")
Parser_and(ps) == Parser_level(ps, "and")
Parser_equality(ps) == Parser_level(ps, "equality")
Parser_comparison(ps) == Parser_level(ps, "comparison")
Parser_term(ps) == Parser_level(ps, "term")
Parser_factor(ps) == Parser_level(ps, "factor")

Parser_unary(ps) ==
  IF Parser_match(ps, {"BANG", "MINUS"}).matched
  THEN Then(Parser_unary(Parser_advance(ps)), LAMBDA r :
         POk(r.ps, UnaryExpr(Parser_previous(Parser_advance(ps)).lexeme, r.node)))
  ELSE Parser_call(ps)

Parser_call(ps) ==
  Then(Parser_primary(ps), LAMBDA e : Parser_callLoop(e.ps, e.node))

Parser_callLoop(ps, expr) ==
  IF Parser_match(ps, {"LEFT_PAREN"}).matched
  THEN Then(Parser_finishCall(Parser_advance(ps), expr), LAMBDA r :
         Parser_callLoop(r.ps, r.node))
  ELSE IF Parser_match(ps, {"DOT"}).matched
  THEN Then(Parser_consume(Parser_advance(ps), "IDENTIFIER",
                           "Expect property name after '.'."), LAMBDA name :
         Parser_callLoop(name.ps, GetExpr(expr, ps.tokens[name.node].lexeme)))
  ELSE POk(ps, expr)

\* the do-while loop of #finishCall; the node is the list of arguments
Parser_arguments(ps, args) ==
  Then(Parser_expression(IF Len(args) >= MaxArguments
                         THEN Parser_error(ps, Parser_peek(ps),
                                           "Can't have more than 255 arguments.")
                         ELSE ps), LAMBDA e :
    IF Parser_match(e.ps, {"COMMA"}).matched
    THEN Parser_arguments(Parser_advance(e.ps), Append(args, e.node))
    ELSE POk(e.ps, Append(args, e.node)))

Parser_finishCall(ps, callee) ==
  Then(IF ~Parser_check(ps, "RIGHT_PAREN") THEN Parser_arguments(ps, <<>>)
       ELSE POk(ps, <<>>), LAMBDA args :
    Then(Parser_consume(args.ps, "RIGHT_PAREN", "Expect ')' after arguments."),
         LAMBDA paren : POk(paren.ps, CallExpr(callee, args.node))))

Parser_primary(ps) ==
  IF Parser_match(ps, {"FALSE"}).matched THEN POk(Parser_advance(ps), LiteralExpr(Bool(FALSE)))
  ELSE IF Parser_match(ps, {"TRUE"}).matched
  THEN POk(Parser_advance(ps), LiteralExpr(Bool(TRUE)))
  ELSE IF Parser_match(ps, {"NIL"}).matched THEN POk(Parser_advance(ps), LiteralExpr(Nil))
  ELSE IF Parser_match(ps, {"NUMBER", "STRING"}).matched
  THEN POk(Parser_advance(ps), LiteralExpr(Parser_peek(ps).literal))
  ELSE IF Parser_match(ps, {"SUPER"}).matched
  THEN Then(Parser_consume(Parser_advance(ps), "DOT", "Expect '.' after 'super'."),
         LAMBDA dot :
           Then(Parser_consume(dot.ps, "IDENTIFIER", "Expect superclass method name."),
             LAMBDA method :
               POk(method.ps, SuperExpr(ps.current + 1, ps.tokens[method.node].lexeme))))
  ELSE IF Parser_match(ps, {"THIS"}).matched
  THEN POk(Parser_advance(ps), ThisExpr(ps.current + 1))
  ELSE IF Parser_match(ps, {"IDENTIFIER"}).matched
  THEN POk(Parser_advance(ps), VariableExpr(ps.current + 1, Parser_peek(ps).lexeme))
  ELSE IF Parser_match(ps, {"LEFT_PAREN"}).matched
  THEN Then(Parser_expression(Parser_advance(ps)), LAMBDA e :
         Then(Parser_consume(e.ps, "RIGHT_PAREN", "Expect ')' after expression."),
           LAMBDA paren : POk(paren.ps, GroupingExpr(e.node))))
  ELSE PThrow(Parser_error(ps, Parser_peek(ps), "Expect expression."))

MaxParameters == 255

RECURSIVE Parser_declaration(_, _), Parser_try(_), Parser_classDeclaration(_),
          Parser_methods(_, _), Parser_statement(_), Parser_forStatement(_),
          Parser_ifStatement(_), Parser_printStatement(_), Parser_returnStatement(_),
          Parser_varDeclaration(_), Parser_whileStatement(_),
          Parser_expressionStatement(_), Parser_fun(_, _), Parser_parameters(_, _),
          Parser_block(_), Parser_blockLoop(_, _)

\* the try block of #declaration
Parser_try(ps) ==
  IF Parser_match(ps, {"CLASS"}).matched THEN Parser_classDeclaration(Parser_advance(ps))
  ELSE IF Parser_match(ps, {"FUN"}).matched THEN Parser_fun(Parser_advance(ps), "function")
  ELSE IF Parser_match(ps, {"VAR"}).matched THEN Parser_varDeclaration(Parser_advance(ps))
  ELSE Parser_statement(ps)

\* #declaration; top tells the call by parse() from the call by #block, and
\* the catch block notes where the error was caught and where parsing resumes
\* history: a pass of a loop began at token start and ended at the state ps
Parser_notePass(ps, top, start) ==
  [ps EXCEPT !.passes = @ \cup {[top |-> top, start |-> start, at |-> ps.current,
                                 atEnd |-> Parser_isAtEnd(ps)]}]

\* a #declaration that catches the ParseError and goes on where it was thrown
Parser_declaration_noSynchronize(ps, top) ==
  Bind(Parser_try(ps), LAMBDA r :
    POk(Parser_notePass(r.ps, top, ps.current), IF r.sig = "ok" THEN r.node ELSE NoNode))

Parser_declaration(ps, top) ==
  Bind(Parser_try(ps), LAMBDA r :
    IF r.sig = "ok" THEN POk(Parser_notePass(r.ps, top, ps.current), r.node)
    ELSE Bind(Parser_synchronize(r.ps), LAMBDA s :
           POk(Parser_notePass(
                 [s EXCEPT !.syncs =
                    Append(@, [start |-> ps.current, from |-> r.ps.current,
                               at |-> s.current, top |-> top,
                               before |-> Len(ps.statements)])],
                 top, ps.current),
               NoNode)))

\* the while loop of #classDeclaration; the node is the list of methods
Parser_methods(ps, methods) ==
  IF ~Parser_check(ps, "RIGHT_BRACE") /\ ~Parser_isAtEnd(ps)
  THEN Then(Parser_fun(ps, "method"), LAMBDA m :
         Parser_methods(m.ps, Append(methods, m.node)))
  ELSE POk(ps, methods)

Parser_classDeclaration(ps) ==
  Then(Parser_consume(ps, "IDENTIFIER", "Expect class name."), LAMBDA name :
    Then(IF Parser_match(name.ps, {"LESS"}).matched
         THEN Then(Parser_consume(Parser_advance(name.ps), "IDENTIFIER",
                                  "Expect superclass name."), LAMBDA sup :
                POk(sup.ps, VariableExpr(sup.node, ps.tokens[sup.node].lexeme)))
         ELSE POk(name.ps, NoNode), LAMBDA superclass :
      Then(Parser_consume(superclass.ps, "LEFT_BRACE", "Expect '{' before class body."),
        LAMBDA brace :
          Then(Parser_methods(brace.ps, <<>>), LAMBDA methods :
            Then(Parser_consume(methods.ps, "RIGHT_BRACE",
                                "Expect '}' after class body."), LAMBDA close :
              POk(close.ps, ClassStmt(ps.tokens[name.node].lexeme, superclass.node,
                                      methods.node)))))))

Parser_statement(ps) ==
  IF Parser_match(ps, {"FOR"}).matched THEN Parser_forStatement(Parser_advance(ps))
  ELSE IF Parser_match(ps, {"IF"}).matched THEN Parser_ifStatement(Parser_advance(ps))
  ELSE IF Parser_match(ps, {"PRINT"}).matched
  THEN Parser_printStatement(Parser_advance(ps))
  ELSE IF Parser_match(ps, {"RETURN"}).matched
  THEN Parser_returnStatement(Parser_advance(ps))
  ELSE IF Parser_match(ps, {"WHILE"}).matched
  THEN Parser_whileStatement(Parser_advance(ps))
  ELSE IF Parser_match(ps, {"LEFT_BRACE"}).matched
  THEN Then(Parser_block(Parser_advance(ps)), LAMBDA b : POk(b.ps, BlockStmt(b.node)))
  ELSE Parser_expressionStatement(ps)

\* the loop #forStatement builds from the clauses and the body
Parser_forLoop(initializer, condition, increment, body) ==
  LET counted == IF increment.k # "null"
                 THEN BlockStmt(<<body, ExpressionStmt(increment)>>) ELSE body
      loop == WhileStmt(IF condition.k = "null" THEN LiteralExpr(Bool(TRUE))
                        ELSE condition, counted)
  IN  IF initializer.k # "null" THEN BlockStmt(<<initializer, loop>>) ELSE loop

Parser_forStatement(ps) ==
  Then(Parser_consume(ps, "LEFT_PAREN", "Expect '(' after 'for'."), LAMBDA paren :
    Then(IF Parser_match(paren.ps, {"SEMICOLON"}).matched
         THEN POk(Parser_advance(paren.ps), NoNode)
         ELSE IF Parser_match(paren.ps, {"VAR"}).matched
         THEN Parser_varDeclaration(Parser_advance(paren.ps))
         ELSE Parser_expressionStatement(paren.ps), LAMBDA initializer :
      Then(IF ~Parser_check(initializer.ps, "SEMICOLON")
           THEN Parser_expression(initializer.ps)
           ELSE POk(initializer.ps, NoNode), LAMBDA condition :
        Then(Parser_consume(condition.ps, "SEMICOLON",
                            "Expect ';' after loop condition."), LAMBDA semi :
          Then(IF ~Parser_check(semi.ps, "RIGHT_PAREN") THEN Parser_expression(semi.ps)
               ELSE POk(semi.ps, NoNode), LAMBDA increment :
            Then(Parser_consume(increment.ps, "RIGHT_PAREN",
                                "Expect ')' after for clauses."), LAMBDA close :
              Then(Parser_statement(close.ps), LAMBDA body :
                POk(body.ps, Parser_forLoop(initializer.node, condition.node,
                                            increment.node, body.node)))))))))

Parser_ifStatement(ps) ==
  Then(Parser_consume(ps, "LEFT_PAREN", "Expect '(' after 'if'."), LAMBDA paren :
    Then(Parser_expression(paren.ps), LAMBDA condition :
      Then(Parser_consume(condition.ps, "RIGHT_PAREN", "Expect ')' after if condition."),
        LAMBDA close :
          Then(Parser_statement(close.ps), LAMBDA thenBranch :
            IF Parser_match(thenBranch.ps, {"ELSE"}).matched
            THEN Then(Parser_statement(Parser_advance(thenBranch.ps)),
                   LAMBDA elseBranch :
                     POk(elseBranch.ps,
                         IfStmt(condition.node, thenBranch.node, elseBranch.node)))
            ELSE POk(thenBranch.ps, IfStmt(condition.node, thenBranch.node, NoNode))))))

Parser_printStatement(ps) ==
  Then(Parser_expression(ps), LAMBDA value :
    Then(Parser_consume(value.ps, "SEMICOLON", "Expect ';' after value."), LAMBDA semi :
      POk(semi.ps, PrintStmt(value.node))))

Parser_returnStatement(ps) ==
  Then(IF ~Parser_check(ps, "SEMICOLON") THEN Parser_expression(ps)
       ELSE POk(ps, NoNode), LAMBDA value :
    Then(Parser_consume(value.ps, "SEMICOLON", "Expect ';' after return value."),
      LAMBDA semi : POk(semi.ps, ReturnStmt(value.node))))

Parser_varDeclaration(ps) ==
  Then(Parser_consume(ps, "IDENTIFIER", "Expect variable name."), LAMBDA name :
    Then(IF Parser_match(name.ps, {"EQUAL"}).matched
         THEN Parser_expression(Parser_advance(name.ps))
         ELSE POk(name.ps, NoNode), LAMBDA initializer :
      Then(Parser_consume(initializer.ps, "SEMICOLON",
                          "Expect ';' after variable declaration."), LAMBDA semi :
        POk(semi.ps, VarStmt(ps.tokens[name.node].lexeme, initializer.node)))))

Parser_whileStatement(ps) ==
  Then(Parser_consume(ps, "LEFT_PAREN", "Expect '(' after 'while'."), LAMBDA paren :
    Then(Parser_expression(paren.ps), LAMBDA condition :
      Then(Parser_consume(condition.ps, "RIGHT_PAREN", "Expect ')' after condition."),
        LAMBDA close :
          Then(Parser_statement(close.ps), LAMBDA body :
            POk(body.ps, WhileStmt(condition.node, body.node))))))

Parser_expressionStatement(ps) ==
  Then(Parser_expression(ps), LAMBDA expr :
    Then(Parser_consume(expr.ps, "SEMICOLON", "Expect ';' after expression."),
      LAMBDA semi : POk(semi.ps, ExpressionStmt(expr.node))))

\* the do-while loop of #fun; the node is the list of parameter names
Parser_parameters(ps, parameters) ==
  Then(Parser_consume(IF Len(parameters) >= MaxParameters
                      THEN Parser_error(ps, Parser_peek(ps),
                                        "Can't have more than 255 parameters.")
                      ELSE ps, "IDENTIFIER", "Expect parameter name."), LAMBDA p :
    IF Parser_match(p.ps, {"COMMA"}).matched
    THEN Parser_parameters(Parser_advance(p.ps),
                           Append(parameters, ps.tokens[p.node].lexeme))
    ELSE POk(p.ps, Append(parameters, ps.tokens[p.node].lexeme)))

Parser_fun(ps, kind) ==
  Then(Parser_consume(ps, "IDENTIFIER", "Expect " \o kind \o " name."), LAMBDA name :
    Then(Parser_consume(name.ps, "LEFT_PAREN", "Expect '(' after " \o kind \o " name."),
      LAMBDA paren :
        Then(IF ~Parser_check(paren.ps, "RIGHT_PAREN")
             THEN Parser_parameters(paren.ps, <<>>)
             ELSE POk(paren.ps, <<>>), LAMBDA parameters :
          Then(Parser_consume(parameters.ps, "RIGHT_PAREN",
                              "Expect ')' after parameters."), LAMBDA close :
            Then(Parser_consume(close.ps, "LEFT_BRACE",
                                "Expect '{' before " \o kind \o " body."), LAMBDA brace :
              Then(Parser_block(brace.ps), LAMBDA body :
                POk(body.ps, FunStmt(ps.tokens[name.node].lexeme, parameters.node,
                                     body.node))))))))

\* the while loop of #block; the node is the list of statements
Parser_blockLoop(ps, stmts) ==
  IF ~Parser_check(ps, "RIGHT_BRACE") /\ ~Parser_isAtEnd(ps)
  THEN Bind(Parser_declaration(ps, FALSE), LAMBDA d :
         Parser_blockLoop(d.ps, IF d.node.k # "null" THEN Append(stmts, d.node)
                                ELSE stmts))
  ELSE POk(ps, stmts)

Parser_block(ps) ==
  Then(Parser_blockLoop(ps, <<>>), LAMBDA stmts :
    Then(Parser_consume(stmts.ps, "RIGHT_BRACE", "Expect '}' after block."),
      LAMBDA close : POk(close.ps, stmts.node)))

\* one pass of the loop of parse()
Parser_parseStep(ps) ==
  Bind(Parser_declaration(ps, TRUE), LAMBDA d :
    [d.ps EXCEPT !.statements = IF d.node.k # "null" THEN Append(@, d.node) ELSE @])

\* return statements
Parser_finish(ps) == [ps EXCEPT !.returned = TRUE]

RECURSIVE Parser_parse(_)
Parser_parse(ps) ==
  IF Parser_isAtEnd(ps) THEN Parser_finish(ps) ELSE Parser_parse(Parser_parseStep(ps))

\* no Parser is at work
NoParser == NewParser(<<>>)

-----------------------------------------------------------------------------
(* Environment (environment.ts).  The heap of environments is the sequence  *)
(* st.envs; an environment is named by its index, 0 is null.                *)

NewEnvironment(st, enclosing) ==
  [st EXCEPT !.envs = Append(@, [enclosing |-> enclosing, values |-> EmptyMap])]

LastEnvironment(st) == Len(st.envs)

Environment_define(st, env, name, value) ==
  [st EXCEPT !.envs[env].values = MapSet(@, name, value)]

RECURSIVE Environment_owner(_, _, _)
\* the environment of the chain from env that get/assign end in, 0 if none
Environment_owner(st, env, name) ==
  IF env = 0 THEN 0
  ELSE IF MapHas(st.envs[env].values, name) THEN env
  ELSE Environment_owner(st, st.envs[env].enclosing, name)

RECURSIVE Environment_ancestor(_, _, _)
Environment_ancestor(st, env, distance) ==
  IF distance <= 0 \/ env = 0 THEN env
  ELSE Environment_ancestor(st, st.envs[env].enclosing, distance - 1)

\* values.get(name) ?? null: a missing name and a stored undefined both read null
Environment_getAt(st, env, distance, name) ==
  LET a == Environment_ancestor(st, env, distance) IN
  IF a # 0 /\ MapHas(st.envs[a].values, name) /\ st.envs[a].values[name] # Undefined
  THEN st.envs[a].values[name]
  ELSE Nil

Environment_assignAt(st, env, distance, name, value) ==
  LET a == Environment_ancestor(st, env, distance) IN
  IF a # 0 THEN [st EXCEPT !.envs[a].values = MapSet(@, name, value)] ELSE st

-----------------------------------------------------------------------------
(* Interpreter.resolve (the resolution side table).  locals maps the id of  *)
(* an expression node to its depth; an absent id is a global.               *)

Interpreter_resolve(locals, id, depth) == MapSet(locals, id, depth)

-----------------------------------------------------------------------------
(* Resolver (resolver.ts).  rs is the resolver object: its scope stack,     *)
(* currentFunction, currentClass, the interpreter's side table it writes,   *)
(* and the lines its errors put on stderr.  rs.crashed: a TypeError was     *)
(* thrown (the class has no visitSuperExpr, so accept() of a Super node     *)
(* calls undefined); the exception unwinds resolve(), so nothing of the     *)
(* resolver runs after it.                                                  *)

NewResolver(locals) ==
  [scopes |-> <<>>, currentFunction |-> "NONE", currentClass |-> "NONE",
   locals |-> locals, errors |-> <<>>, crashed |-> FALSE,
   \* history: the calls of interpreter.resolve, with the size of the stack
   annotations |-> {}]

Resolver_error(rs, lexeme, message) ==
  IF rs.crashed THEN rs
  ELSE [rs EXCEPT !.errors = Append(@, ErrorReporter_resolverError(lexeme, message))]

Resolver_beginScope(rs) ==
  IF rs.crashed THEN rs ELSE [rs EXCEPT !.scopes = Append(@, EmptyMap)]

Resolver_endScope(rs) ==
  IF rs.crashed THEN rs ELSE [rs EXCEPT !.scopes = SubSeq(@, 1, Len(@) - 1)]

Resolver_declare(rs, name) ==
  IF rs.crashed \/ Len(rs.scopes) = 0 THEN rs
  ELSE LET top == Len(rs.scopes)
           r1 == IF MapHas(rs.scopes[top], name)
                 THEN Resolver_error(rs, name,
                        "Already a variable with this name in this scope.")
                 ELSE rs
       IN [r1 EXCEPT !.scopes[top] = MapSet(@, name, FALSE)]

Resolver_define(rs, name) ==
  IF rs.crashed \/ Len(rs.scopes) = 0 THEN rs
  ELSE [rs EXCEPT !.scopes[Len(rs.scopes)] = MapSet(@, name, TRUE)]

\* interpreter.resolve(expr, depth) as the resolver calls it
Resolver_annotate(rs, id, depth) ==
  [rs EXCEPT !.locals = Interpreter_resolve(@, id, depth),
             !.annotations = @ \cup {[id |-> id, depth |-> depth,
                                      scopes |-> Len(rs.scopes)]}]

RECURSIVE Resolver_resolveLocalFrom_countFromOne(_, _, _, _)
\* a loop of #resolveLocal that takes the length of the stack for its last index
Resolver_resolveLocalFrom_countFromOne(rs, id, name, i) ==
  IF i < 1 THEN rs
  ELSE IF MapHas(rs.scopes[i], name)
       THEN Resolver_annotate(rs, id, Len(rs.scopes) - (i - 1))
       ELSE Resolver_resolveLocalFrom_countFromOne(rs, id, name, i - 1)

RECURSIVE Resolver_resolveLocalFrom(_, _, _, _)
\* the loop of #resolveLocal; i is the 1-based index of the scope looked at
Resolver_resolveLocalFrom(rs, id, name, i) ==
  IF i < 1 THEN rs
  ELSE IF MapHas(rs.scopes[i], name)
       THEN Resolver_annotate(rs, id, Len(rs.scopes) - i)
       ELSE Resolver_resolveLocalFrom(rs, id, name, i - 1)

Resolver_resolveLocal(rs, id, name) ==
  IF rs.crashed THEN rs ELSE Resolver_resolveLocalFrom(rs, id, name, Len(rs.scopes))

RECURSIVE Resolver_accept(_, _), Resolver_resolve(_, _, _), Resolver_resolveFun(_, _, _)
RECURSIVE Resolver_visitClassStmt(_, _), Resolver_resolveMethods(_, _, _)

RECURSIVE Resolver_declareParams(_, _, _)
Resolver_declareParams(params, i, rs) ==
  IF i > Len(params) THEN rs
  ELSE Resolver_declareParams(params, i + 1,
         Resolver_define(Resolver_declare(rs, params[i]), params[i]))

\* a resolveFun that leaves #currentFunction as the function set it
Resolver_resolveFun_noRestore(fun, type, rs) ==
  LET r1 == Resolver_beginScope([rs EXCEPT !.currentFunction = type])
      r2 == Resolver_declareParams(fun.params, 1, r1)
  IN  Resolver_endScope(Resolver_resolve(fun.body, 1, r2))

Resolver_resolveFun(fun, type, rs) ==
  LET enclosingFunction == rs.currentFunction
      r1 == Resolver_beginScope([rs EXCEPT !.currentFunction = type])
      r2 == Resolver_declareParams(fun.params, 1, r1)
      r3 == Resolver_endScope(Resolver_resolve(fun.body, 1, r2))
  IN IF r3.crashed THEN r3 ELSE [r3 EXCEPT !.currentFunction = enclosingFunction]

Resolver_visitBlockStmt(stmt, rs) ==
  Resolver_endScope(Resolver_resolve(stmt.statements, 1, Resolver_beginScope(rs)))

Resolver_resolveMethods(methods, i, rs) ==
  IF i > Len(methods) \/ rs.crashed THEN rs
  ELSE Resolver_resolveMethods(methods, i + 1,
         Resolver_resolveFun(methods[i],
           IF methods[i].name = "init" THEN "INITIALIZER" ELSE "METHOD", rs))

\* a visitClassStmt that leaves #currentClass as the class set it
Resolver_visitClassStmt_noRestore(stmt, rs) ==
  LET r1 == Resolver_define(
              Resolver_declare([rs EXCEPT !.currentClass = "CLASS"], stmt.name),
              stmt.name)
      r2 == Resolver_beginScope(r1)
      r3 == [r2 EXCEPT !.scopes[Len(r2.scopes)] = MapSet(@, "this", TRUE)]
  IN Resolver_endScope(Resolver_resolveMethods(stmt.methods, 1, r3))

Resolver_visitClassStmt(stmt, rs) ==
  LET enclosingClass == rs.currentClass
      r1 == Resolver_define(
              Resolver_declare([rs EXCEPT !.currentClass = "CLASS"], stmt.name),
              stmt.name)
      r2 == Resolver_beginScope(r1)
      r3 == [r2 EXCEPT !.scopes[Len(r2.scopes)] = MapSet(@, "this", TRUE)]
      r4 == Resolver_endScope(Resolver_resolveMethods(stmt.methods, 1, r3))
  IN IF r4.crashed THEN r4 ELSE [r4 EXCEPT !.currentClass = enclosingClass]

Resolver_visitFunStmt(stmt, rs) ==
  Resolver_resolveFun(stmt, "FUNCTION",
    Resolver_define(Resolver_declare(rs, stmt.name), stmt.name))

Resolver_visitIfStmt(stmt, rs) ==
  LET r1 == Resolver_accept(stmt.thenBranch, Resolver_accept(stmt.condition, rs))
  IN IF stmt.elseBranch.k # "null" THEN Resolver_accept(stmt.elseBranch, r1) ELSE r1

Resolver_visitReturnStmt(stmt, rs) ==
  LET r1 == IF rs.currentFunction = "NONE"
            THEN Resolver_error(rs, "return", "Can't return from top-level code.")
            ELSE rs
  IN IF stmt.value.k # "null"
     THEN Resolver_accept(stmt.value,
            IF r1.currentFunction = "INITIALIZER"
            THEN Resolver_error(r1, "return",
                   "Can't return a value from an initializer.")
            ELSE r1)
     ELSE r1

\* a visitVarStmt that defines the name before it resolves the initializer
Resolver_visitVarStmt_defineFirst(stmt, rs) ==
  LET r1 == Resolver_define(Resolver_declare(rs, stmt.name), stmt.name)
  IN  IF stmt.initializer.k # "null" THEN Resolver_accept(stmt.initializer, r1) ELSE r1

Resolver_visitVarStmt(stmt, rs) ==
  LET r1 == Resolver_declare(rs, stmt.name)
      r2 == IF stmt.initializer.k # "null" THEN Resolver_accept(stmt.initializer, r1)
            ELSE r1
  IN Resolver_define(r2, stmt.name)

Resolver_visitWhileStmt(stmt, rs) ==
  Resolver_accept(stmt.body, Resolver_accept(stmt.condition, rs))

Resolver_visitAssignExpr(expr, rs) ==
  Resolver_resolveLocal(Resolver_accept(expr.value, rs), expr.id, expr.name)

Resolver_visitBinaryExpr(expr, rs) ==
  Resolver_accept(expr.right, Resolver_accept(expr.left, rs))

Resolver_visitLogicalExpr(expr, rs) ==
  Resolver_accept(expr.right, Resolver_accept(expr.left, rs))

Resolver_visitCallExpr(expr, rs) ==
  Resolver_resolve(expr.args, 1, Resolver_accept(expr.callee, rs))

Resolver_visitGetExpr(expr, rs) == Resolver_accept(expr.object, rs)

Resolver_visitSetExpr(expr, rs) ==
  Resolver_accept(expr.object, Resolver_accept(expr.value, rs))

Resolver_visitThisExpr(expr, rs) ==
  IF rs.currentClass = "NONE"
  THEN Resolver_error(rs, "this", "Can't use 'this' outside of a class.")
  ELSE Resolver_resolveLocal(rs, expr.id, "this")

Resolver_visitVariableExpr(expr, rs) ==
  LET top == Len(rs.scopes)
      r1 == IF top > 0 /\ MapHas(rs.scopes[top], expr.name)
               /\ rs.scopes[top][expr.name] = FALSE
            THEN Resolver_error(rs, expr.name,
                   "Can't read local variable in its own initializer.")
            ELSE rs
  IN Resolver_resolveLocal(r1, expr.id, expr.name)

\* kind.accept(this): the visitor dispatch of expr.ts and stmt.ts
Resolver_accept(node, rs) ==
  IF rs.crashed THEN rs
  ELSE CASE node.k = "Block" -> Resolver_visitBlockStmt(node, rs)
         [] node.k = "Class" -> Resolver_visitClassStmt(node, rs)
         [] node.k = "Expression" -> Resolver_accept(node.expression, rs)
         [] node.k = "Fun" -> Resolver_visitFunStmt(node, rs)
         [] node.k = "If" -> Resolver_visitIfStmt(node, rs)
         [] node.k = "Print" -> Resolver_accept(node.expression, rs)
         [] node.k = "Return" -> Resolver_visitReturnStmt(node, rs)
         [] node.k = "Var" -> Resolver_visitVarStmt(node, rs)
         [] node.k = "While" -> Resolver_visitWhileStmt(node, rs)
         [] node.k = "Assign" -> Resolver_visitAssignExpr(node, rs)
         [] node.k = "Binary" -> Resolver_visitBinaryExpr(node, rs)
         [] node.k = "Call" -> Resolver_visitCallExpr(node, rs)
         [] node.k = "Get" -> Resolver_visitGetExpr(node, rs)
         [] node.k = "Grouping" -> Resolver_accept(node.expression, rs)
         [] node.k = "Literal" -> rs
         [] node.k = "Logical" -> Resolver_visitLogicalExpr(node, rs)
         [] node.k = "Set" -> Resolver_visitSetExpr(node, rs)
         [] node.k = "Super" -> [rs EXCEPT !.crashed = TRUE]
         [] node.k = "This" -> Resolver_visitThisExpr(node, rs)
         [] node.k = "Unary" -> Resolver_accept(node.right, rs)
         [] node.k = "Variable" -> Resolver_visitVariableExpr(node, rs)

\* resolve(statements): the loop over a list, from its i-th element on
Resolver_resolve(nodes, i, rs) ==
  IF i > Len(nodes) \/ rs.crashed THEN rs
  ELSE Resolver_resolve(nodes, i + 1, Resolver_accept(nodes[i], rs))

-----------------------------------------------------------------------------
(* Results of a visit of the interpreter.  sig is "ok" for a normal return  *)
(* or the class of the exception thrown: "RuntimeError" (runtime-error.ts), *)
(* "Return" (return.ts) or "TypeError" (raised by the JavaScript runtime).  *)
(* v is the value returned, or the field value of the exception: only a     *)
(* Return has one, on the other exceptions it reads undefined.              *)

Ok(st, v) == [st |-> st, sig |-> "ok", v |-> v, msg |-> ""]
ThrowReturn(st, v) == [st |-> st, sig |-> "Return", v |-> v, msg |-> ""]
ThrowTypeError(st) == [st |-> st, sig |-> "TypeError", v |-> Undefined, msg |-> ""]
\* throw new RuntimeError(token, message); st.raised counts them
ThrowRuntimeError(st, message) ==
  [st |-> [st EXCEPT !.raised = @ + 1], sig |-> "RuntimeError", v |-> Undefined,
   msg |-> message]

Globals == 1    \* Interpreter.globals is the first environment of the heap

NewInterpreter ==
  [envs |-> <<[enclosing |-> 0, values |-> MapSet(EmptyMap, "clock", ClockFn)]>>,
   funs |-> <<>>, classes |-> <<>>, instances |-> <<>>,
   environment |-> Globals, locals |-> EmptyMap, out |-> <<>>, clock |-> 0,
   \* history of the execution, read by the properties only
   raised |-> 0, executedAfterFailure |-> 0, lookups |-> {}, blockExits |-> {},
   calls |-> {}]

Environment_get(st, env, name) ==
  LET owner == Environment_owner(st, env, name) IN
  IF owner # 0 THEN Ok(st, st.envs[owner].values[name])
  ELSE ThrowRuntimeError(st, "Undefined variable '" \o name \o "'.")

\* an assign that always writes into the environment it is called on
Environment_assign_here(st, env, name, value) ==
  Ok([st EXCEPT !.envs[env].values = MapSet(@, name, value)], value)

Environment_assign(st, env, name, value) ==
  LET owner == Environment_owner(st, env, name) IN
  IF owner # 0 THEN Ok([st EXCEPT !.envs[owner].values = MapSet(@, name, value)], value)
  ELSE ThrowRuntimeError(st, "Undefined variable '" \o name \o "'.")

-----------------------------------------------------------------------------
(* LoxFun, LoxClass, LoxInstance: the objects of the heap *)

NewLoxFun(st, declaration, closure, isInitializer, boundTo) ==
  [st EXCEPT !.funs = Append(@, [declaration |-> declaration, closure |-> closure,
                                 isInitializer |-> isInitializer,
                                 boundTo |-> boundTo])]   \* boundTo: history

LastFun(st) == Len(st.funs)

\* a bind that defines this in the closure of the method itself
LoxFun_bind_sharedThis(st, f, instance) ==
  NewLoxFun(Environment_define(st, st.funs[f].closure, "this", InstanceRef(instance)),
            st.funs[f].declaration, st.funs[f].closure, st.funs[f].isInitializer,
            instance)

\* bind(instance): the state after it; the bound function is LastFun
LoxFun_bind(st, f, instance) ==
  LET s1 == NewEnvironment(st, st.funs[f].closure)
      s2 == Environment_define(s1, LastEnvironment(s1), "this", InstanceRef(instance))
  IN NewLoxFun(s2, st.funs[f].declaration, LastEnvironment(s1),
               st.funs[f].isInitializer, instance)

LoxFun_arity(st, f) == Len(st.funs[f].declaration.params)

RECURSIVE LoxClass_findMethod(_, _, _)
\* the function found, 0 for undefined
LoxClass_findMethod(st, class, name) ==
  IF MapHas(st.classes[class].methods, name) THEN st.classes[class].methods[name]
  ELSE IF st.classes[class].superclass # 0
       THEN LoxClass_findMethod(st, st.classes[class].superclass, name)
       ELSE 0

\* an arity that looks for init among the methods of the class itself only
LoxClass_arity_ownInit(st, class) ==
  IF MapHas(st.classes[class].methods, "init")
  THEN LoxFun_arity(st, st.classes[class].methods["init"]) ELSE 0

LoxClass_arity(st, class) ==
  LET initializer == LoxClass_findMethod(st, class, "init") IN
  IF initializer = 0 THEN 0 ELSE LoxFun_arity(st, initializer)

\* a get that looks for a method before it looks at the fields
LoxInstance_get_methodFirst(st, instance, name) ==
  LET method == LoxClass_findMethod(st, st.instances[instance].klass, name) IN
  IF method # 0
  THEN LET s1 == LoxFun_bind(st, method, instance) IN Ok(s1, FunRef(LastFun(s1)))
  ELSE IF MapHas(st.instances[instance].fields, name)
  THEN Ok(st, st.instances[instance].fields[name])
  ELSE ThrowRuntimeError(st, "Undefined property '" \o name \o "'.")

LoxInstance_get(st, instance, name) ==
  IF MapHas(st.instances[instance].fields, name)
  THEN Ok(st, st.instances[instance].fields[name])
  ELSE LET method == LoxClass_findMethod(st, st.instances[instance].klass, name) IN
       IF method # 0
       THEN LET s1 == LoxFun_bind(st, method, instance) IN Ok(s1, FunRef(LastFun(s1)))
       ELSE ThrowRuntimeError(st, "Undefined property '" \o name \o "'.")

LoxInstance_set(st, instance, name, value) ==
  [st EXCEPT !.instances[instance].fields = MapSet(@, name, value)]

-----------------------------------------------------------------------------------------------------------------------------------------------------
(* Interpreter (interpreter.ts): expressions *)

RECURSIVE Interpreter_evaluate(_, _), Interpreter_execute(_, _)
RECURSIVE Interpreter_executeAll(_, _, _), Interpreter_executeBlock(_, _, _)
RECURSIVE Interpreter_evaluateArgs(_, _, _, _), Interpreter_whileLoop(_, _)
RECURSIVE LoxFun_call(_, _, _), LoxClass_call(_, _, _), Interpreter_visitCallExpr(_, _)
RECURSIVE Interpreter_visitClassStmt(_, _)


Interpreter_isTruthy(object) ==
  IF object = Nil THEN FALSE
  ELSE IF object.t = "bool" THEN object.n = 1
  ELSE TRUE

Interpreter_isEqual(a, b) == a = b

\* [ok, text]: ok is FALSE when object.toString() throws a TypeError (undefined)
Interpreter_stringify(st, object) ==
  CASE object = Nil -> [ok |-> TRUE, text |-> "nil"]
    [] object.t = "num" -> [ok |-> TRUE, text |-> ToString(object.n)]
    [] object.t = "bool" ->
         [ok |-> TRUE, text |-> IF object.n = 1 THEN "true" ELSE "false"]
    [] object.t = "str" -> [ok |-> TRUE, text |-> object.s]
    [] object.t = "native" -> [ok |-> TRUE, text |-> "<native fn>"]
    [] object.t = "fun" ->
         [ok |-> TRUE, text |-> "<fn " \o st.funs[object.n].declaration.name \o ">"]
    [] object.t = "class" -> [ok |-> TRUE, text |-> st.classes[object.n].name]
    [] object.t = "instance" ->
         [ok |-> TRUE,
          text |-> st.classes[st.instances[object.n].klass].name \o " instance"]
    [] object.t = "undefined" -> [ok |-> FALSE, text |-> ""]

\* history: a getAt/assignAt made for an annotated expression, and whether the
\* environment it reached holds the name
NoteLookup(st, kind, name, distance) ==
  LET a == Environment_ancestor(st, st.environment, distance) IN
  [st EXCEPT !.lookups = @ \cup
     {[kind |-> kind, name |-> name, distance |-> distance,
       hit |-> a # 0 /\ MapHas(st.envs[a].values, name)]}]

Interpreter_lookUpVariable(name, expr, st) ==
  IF MapHas(st.locals, expr.id)
  THEN Ok(NoteLookup(st, "get", name, st.locals[expr.id]),
          Environment_getAt(st, st.environment, st.locals[expr.id], name))
  ELSE Environment_get(st, Globals, name)

Interpreter_visitAssignExpr(expr, st) ==
  Bind(Interpreter_evaluate(expr.value, st), LAMBDA r :
    IF r.sig # "ok" THEN r
    ELSE IF MapHas(r.st.locals, expr.id)
    THEN Ok(Environment_assignAt(
              NoteLookup(r.st, "assign", expr.name, r.st.locals[expr.id]),
              r.st.environment, r.st.locals[expr.id], expr.name, r.v), r.v)
    ELSE Environment_assign(r.st, Globals, expr.name, r.v))

Interpreter_checkNumberOperands(left, right) == left.t = "num" /\ right.t = "num"

\* the switch of visitBinaryExpr on the operands l and r, in state st (no
\* source of the model divides: SLASH has no case here)
Interpreter_binaryOp(op, l, r, st) ==
  CASE op = "!=" -> Ok(st, Bool(~Interpreter_isEqual(l, r)))
    [] op = "==" -> Ok(st, Bool(Interpreter_isEqual(l, r)))
    [] op = "+" ->
         IF l.t = "num" /\ r.t = "num" THEN Ok(st, Num(l.n + r.n))
         ELSE IF l.t = "str" /\ r.t = "str" THEN Ok(st, Str(l.s \o r.s))
         ELSE ThrowRuntimeError(st, "Operands must be two numbers or two strings.")
    [] OTHER ->
         IF ~Interpreter_checkNumberOperands(l, r)
         THEN ThrowRuntimeError(st, "Operands must be numbers.")
         ELSE CASE op = ">" -> Ok(st, Bool(l.n > r.n))
                [] op = ">=" -> Ok(st, Bool(l.n >= r.n))
                [] op = "<" -> Ok(st, Bool(l.n < r.n))
                [] op = "<=" -> Ok(st, Bool(l.n <= r.n))
                [] op = "-" -> Ok(st, Num(l.n - r.n))
                [] op = "*" -> Ok(st, Num(l.n * r.n))

Interpreter_visitBinaryExpr(expr, st) ==
  Bind(Interpreter_evaluate(expr.left, st), LAMBDA l :
    IF l.sig # "ok" THEN l
    ELSE Bind(Interpreter_evaluate(expr.right, l.st), LAMBDA r :
           IF r.sig # "ok" THEN r
           ELSE Interpreter_binaryOp(expr.operator, l.v, r.v, r.st)))

\* the loop over expr.args; acc are the values so far
Interpreter_evaluateArgs(args, i, st, acc) ==
  IF i > Len(args) THEN [st |-> st, sig |-> "ok", v |-> Nil, msg |-> "", args |-> acc]
  ELSE Bind(Interpreter_evaluate(args[i], st), LAMBDA r :
         IF r.sig # "ok"
         THEN [st |-> r.st, sig |-> r.sig, v |-> r.v, msg |-> r.msg, args |-> acc]
         ELSE Interpreter_evaluateArgs(args, i + 1, r.st, Append(acc, r.v)))

\* Clock.call: the time read advances with every reading
Clock_call(st) == Ok([st EXCEPT !.clock = @ + 1], Num(st.clock))

\* callee.arity()
Callable_arity(st, callee) ==
  CASE callee.t = "native" -> 0
    [] callee.t = "fun" -> LoxFun_arity(st, callee.n)
    [] callee.t = "class" -> LoxClass_arity(st, callee.n)

\* a visitCallExpr that looks at the callee before it evaluates the arguments
Interpreter_visitCallExpr_checkFirst(expr, st) ==
  Bind(Interpreter_evaluate(expr.callee, st), LAMBDA c :
    IF c.sig # "ok" THEN c
    ELSE IF c.v.t \notin {"native", "fun", "class"}
    THEN ThrowRuntimeError(c.st, "Can only call functions and classes.")
    ELSE IF Len(expr.args) # Callable_arity(c.st, c.v)
    THEN ThrowRuntimeError(c.st,
           "Expected " \o ToString(Callable_arity(c.st, c.v))
             \o " arguments but got " \o ToString(Len(expr.args)) \o ".")
    ELSE Bind(Interpreter_evaluateArgs(expr.args, 1, c.st, <<>>), LAMBDA a :
      IF a.sig # "ok" THEN [st |-> a.st, sig |-> a.sig, v |-> a.v, msg |-> a.msg]
      ELSE CASE c.v.t = "native" -> Clock_call(a.st)
             [] c.v.t = "fun" -> LoxFun_call(c.v.n, a.args, a.st)
             [] c.v.t = "class" -> LoxClass_call(c.v.n, a.args, a.st)))

Interpreter_visitCallExpr(expr, st) ==
  Bind(Interpreter_evaluate(expr.callee, st), LAMBDA c :
    IF c.sig # "ok" THEN c
    ELSE Bind(Interpreter_evaluateArgs(expr.args, 1, c.st, <<>>), LAMBDA a :
      IF a.sig # "ok" THEN [st |-> a.st, sig |-> a.sig, v |-> a.v, msg |-> a.msg]
      ELSE IF c.v.t \notin {"native", "fun", "class"}
      THEN ThrowRuntimeError(a.st, "Can only call functions and classes.")
      ELSE IF Len(a.args) # Callable_arity(a.st, c.v)
      THEN ThrowRuntimeError(a.st,
             "Expected " \o ToString(Callable_arity(a.st, c.v))
               \o " arguments but got " \o ToString(Len(a.args)) \o ".")
      ELSE CASE c.v.t = "native" -> Clock_call(a.st)
             [] c.v.t = "fun" -> LoxFun_call(c.v.n, a.args, a.st)
             [] c.v.t = "class" -> LoxClass_call(c.v.n, a.args, a.st)))

Interpreter_visitGetExpr(expr, st) ==
  Bind(Interpreter_evaluate(expr.object, st), LAMBDA o :
    IF o.sig # "ok" THEN o
    ELSE IF o.v.t = "instance" THEN LoxInstance_get(o.st, o.v.n, expr.name)
    ELSE ThrowRuntimeError(o.st, "Only instances have properties."))

Interpreter_visitUnaryExpr(expr, st) ==
  Bind(Interpreter_evaluate(expr.right, st), LAMBDA r :
    IF r.sig # "ok" THEN r
    ELSE IF expr.operator = "!" THEN Ok(r.st, Bool(~Interpreter_isTruthy(r.v)))
    ELSE IF r.v.t = "num" THEN Ok(r.st, Num(0 - r.v.n))
    ELSE ThrowRuntimeError(r.st, "Operand must be a number."))

\* a visitLogicalExpr that evaluates both operands before it chooses
Interpreter_visitLogicalExpr_eager(expr, st) ==
  Bind(Interpreter_evaluate(expr.left, st), LAMBDA l :
    IF l.sig # "ok" THEN l
    ELSE Bind(Interpreter_evaluate(expr.right, l.st), LAMBDA r :
      IF r.sig # "ok" THEN r
      ELSE IF (expr.operator = "or") = Interpreter_isTruthy(l.v) THEN Ok(r.st, l.v)
      ELSE r))

Interpreter_visitLogicalExpr(expr, st) ==
  Bind(Interpreter_evaluate(expr.left, st), LAMBDA l :
    IF l.sig # "ok" THEN l
    ELSE IF expr.operator = "or" /\ Interpreter_isTruthy(l.v) THEN l
    ELSE IF expr.operator # "or" /\ ~Interpreter_isTruthy(l.v) THEN l
    ELSE Interpreter_evaluate(expr.right, l.st))

Interpreter_visitSetExpr(expr, st) ==
  Bind(Interpreter_evaluate(expr.object, st), LAMBDA o :
    IF o.sig # "ok" THEN o
    ELSE IF o.v.t # "instance"
    THEN ThrowRuntimeError(o.st, "Only instances have fields.")
    ELSE Bind(Interpreter_evaluate(expr.value, o.st), LAMBDA r :
           IF r.sig # "ok" THEN r
           ELSE Ok(LoxInstance_set(r.st, o.v.n, expr.name, r.v), r.v)))

\* #locals.get(expr)! is undefined for a node the resolver never annotated:
\* ancestor(undefined) is the environment itself, ancestor(NaN) too
Interpreter_visitSuperExpr(expr, st) ==
  LET has == MapHas(st.locals, expr.id)
      superclass == Environment_getAt(st, st.environment,
                      IF has THEN st.locals[expr.id] ELSE 0, "super")
      object == Environment_getAt(st, st.environment,
                  IF has THEN st.locals[expr.id] - 1 ELSE 0, "this")
  IN IF superclass.t # "class" THEN ThrowTypeError(st)
     ELSE LET method == LoxClass_findMethod(st, superclass.n, expr.method) IN
          IF method = 0
          THEN ThrowRuntimeError(st, "Undefined property '" \o expr.method \o "'.")
          ELSE LET s1 == LoxFun_bind(st, method, object.n) IN Ok(s1, FunRef(LastFun(s1)))

\* expr.accept(this)
Interpreter_evaluate(expr, st) ==
  CASE expr.k = "Literal" -> Ok(st, expr.value)
    [] expr.k = "Grouping" -> Interpreter_evaluate(expr.expression, st)
    [] expr.k = "Variable" -> Interpreter_lookUpVariable(expr.name, expr, st)
    [] expr.k = "This" -> Interpreter_lookUpVariable("this", expr, st)
    [] expr.k = "Assign" -> Interpreter_visitAssignExpr(expr, st)
    [] expr.k = "Binary" -> Interpreter_visitBinaryExpr(expr, st)
    [] expr.k = "Call" -> Interpreter_visitCallExpr(expr, st)
    [] expr.k = "Get" -> Interpreter_visitGetExpr(expr, st)
    [] expr.k = "Logical" -> Interpreter_visitLogicalExpr(expr, st)
    [] expr.k = "Set" -> Interpreter_visitSetExpr(expr, st)
    [] expr.k = "Super" -> Interpreter_visitSuperExpr(expr, st)
    [] expr.k = "Unary" -> Interpreter_visitUnaryExpr(expr, st)

-----------------------------------------------------------------------------
(* LoxFun.call and LoxClass.call (lox-fun.ts, lox-class.ts) *)

RECURSIVE DefineParams_firstArgument(_, _, _, _, _)
\* a loop that binds every parameter to args[0]
DefineParams_firstArgument(st, environment, params, args, i) ==
  IF i > Len(params) THEN st
  ELSE DefineParams_firstArgument(Environment_define(st, environment, params[i], args[1]),
                                  environment, params, args, i + 1)

RECURSIVE DefineParams(_, _, _, _, _)
\* the loop of LoxFun.call that binds the parameters
DefineParams(st, environment, params, args, i) ==
  IF i > Len(params) THEN st
  ELSE DefineParams(Environment_define(st, environment, params[i], args[i]),
                    environment, params, args, i + 1)

\* history: how a call of executeBlock ended and the current environment
\* before and after it
NoteBlockExit(st, from, how, before) ==
  [st EXCEPT !.blockExits = @ \cup
     {[from |-> from, how |-> how, before |-> before, after |-> st.environment]}]

\* history: a call of a function or of a class and what it yielded
NoteCall(st, ev) == [st EXCEPT !.calls = @ \cup {ev}]

\* LoxFun.call with the new environment on the caller's current environment
LoxFun_enter_callSite(f, args, st) ==
  LET s1 == NewEnvironment(st, st.environment) IN
  DefineParams(s1, LastEnvironment(s1), st.funs[f].declaration.params, args, 1)

\* the state in which LoxFun.call runs the body: a new environment on the
\* closure with the parameters defined in it
LoxFun_enter(f, args, st) ==
  LET s1 == NewEnvironment(st, st.funs[f].closure) IN
  DefineParams(s1, LastEnvironment(s1), st.funs[f].declaration.params, args, 1)

\* LoxFun.call as src/src/lox-fun.ts has it: no case for an initializer
LoxFun_result_anyFun(fn, r) == IF r.sig # "ok" THEN r.v ELSE Nil

\* what LoxFun.call returns when executeBlock ended as r.  catch (returnValue)
\* catches every exception, not only a Return.
LoxFun_result(fn, r) ==
  IF r.sig # "ok"
  THEN IF fn.isInitializer THEN Environment_getAt(r.st, fn.closure, 0, "this")
       ELSE r.v
  ELSE IF fn.isInitializer THEN Environment_getAt(r.st, fn.closure, 0, "this")
       ELSE Nil

\* history: the environment LoxFun.call made for the body, as it was when the
\* body began
Frame(f, args, st, entered) ==
  [env |-> Len(st.envs) + 1, enclosing |-> entered.envs[Len(st.envs) + 1].enclosing,
   values |-> entered.envs[Len(st.envs) + 1].values, closure |-> st.funs[f].closure,
   caller |-> st.environment, params |-> st.funs[f].declaration.params, args |-> args]

NoFrame ==
  [env |-> 0, enclosing |-> 0, values |-> EmptyMap, closure |-> 0, caller |-> 0,
   params |-> <<>>, args |-> <<>>]

LoxFun_call(f, args, st) ==
  Bind(Interpreter_executeBlock(st.funs[f].declaration.body,
         Len(st.envs) + 1, LoxFun_enter(f, args, st)), LAMBDA r :
    Ok(NoteCall(NoteBlockExit(r.st, "call", r.sig, st.environment),
                [kind |-> IF st.funs[f].isInitializer THEN "init" ELSE "fun",
                 how |-> r.sig, result |-> LoxFun_result(st.funs[f], r),
                 self |-> st.funs[f].boundTo,
                 frame |-> Frame(f, args, st, LoxFun_enter(f, args, st))]),
       LoxFun_result(st.funs[f], r)))

\* new LoxInstance(this)
NewLoxInstance(st, class) ==
  [st EXCEPT !.instances = Append(@, [klass |-> class, fields |-> EmptyMap])]

LoxClass_call(class, args, st) ==
  Bind(IF LoxClass_findMethod(st, class, "init") # 0
       THEN LoxFun_call(Len(st.funs) + 1, args,
              LoxFun_bind(NewLoxInstance(st, class),
                          LoxClass_findMethod(st, class, "init"),
                          Len(st.instances) + 1))
       ELSE Ok(NewLoxInstance(st, class), Nil), LAMBDA r :
    IF r.sig # "ok" THEN r
    ELSE Ok(NoteCall(r.st, [kind |-> "new", how |-> r.sig,
                            result |-> InstanceRef(Len(st.instances) + 1),
                            self |-> Len(st.instances) + 1, frame |-> NoFrame]),
            InstanceRef(Len(st.instances) + 1)))

-----------------------------------------------------------------------------
(* Interpreter (interpreter.ts): statements *)

Interpreter_executeAll(stmts, i, st) ==
  IF i > Len(stmts) THEN Ok(st, Nil)
  ELSE Bind(Interpreter_execute(stmts[i], st), LAMBDA r :
         IF r.sig # "ok" THEN r ELSE Interpreter_executeAll(stmts, i + 1, r.st))

\* executeBlock without the finally clause: restores on normal completion only
Interpreter_executeBlock_noFinally(stmts, environment, st) ==
  Bind(Interpreter_executeAll(stmts, 1, [st EXCEPT !.environment = environment]),
       LAMBDA r : IF r.sig = "ok" THEN [r EXCEPT !.st.environment = st.environment]
                  ELSE r)

\* try { environment = env; ... } finally { environment = previous }
Interpreter_executeBlock(stmts, environment, st) ==
  Bind(Interpreter_executeAll(stmts, 1, [st EXCEPT !.environment = environment]),
       LAMBDA r : [r EXCEPT !.st.environment = st.environment])

Interpreter_visitBlockStmt(stmt, st) ==
  Bind(Interpreter_executeBlock(stmt.statements, Len(st.envs) + 1,
                                NewEnvironment(st, st.environment)), LAMBDA r :
    [r EXCEPT !.st = NoteBlockExit(r.st, "block", r.sig, st.environment)])

RECURSIVE Interpreter_classMethods(_, _, _, _)
\* the loop over stmt.methods: [st, methods]
Interpreter_classMethods(methods, i, st, acc) ==
  IF i > Len(methods) THEN [st |-> st, methods |-> acc]
  ELSE Interpreter_classMethods(methods, i + 1,
         NewLoxFun(st, methods[i], st.environment, methods[i].name = "init", 0),
         MapSet(acc, methods[i].name, Len(st.funs) + 1))

\* a visitClassStmt that stays in the environment it made for super
Interpreter_defineClass_keepSuper(stmt, superclass, st) ==
  LET s1 == Environment_define(st, st.environment, stmt.name, Nil)
      e == NewEnvironment(s1, s1.environment)
      s2 == IF stmt.superclass.k # "null"
            THEN Environment_define([e EXCEPT !.environment = LastEnvironment(e)],
                                    LastEnvironment(e), "super", superclass)
            ELSE s1
      m == Interpreter_classMethods(stmt.methods, 1, s2, EmptyMap)
      s3 == [m.st EXCEPT !.classes = Append(@,
               [name |-> stmt.name,
                superclass |-> IF superclass.t = "class" THEN superclass.n ELSE 0,
                methods |-> m.methods])]
  IN Environment_assign(s3, s3.environment, stmt.name, ClassRef(Len(s3.classes)))

\* visitClassStmt once the superclass is evaluated and checked: superclass is
\* the class, or Nil when the declaration names none
Interpreter_defineClass(stmt, superclass, st) ==
  LET s1 == Environment_define(st, st.environment, stmt.name, Nil)
      e == NewEnvironment(s1, s1.environment)
      s2 == IF stmt.superclass.k # "null"
            THEN Environment_define([e EXCEPT !.environment = LastEnvironment(e)],
                                    LastEnvironment(e), "super", superclass)
            ELSE s1
      m == Interpreter_classMethods(stmt.methods, 1, s2, EmptyMap)
      s3 == [m.st EXCEPT !.classes = Append(@,
               [name |-> stmt.name,
                superclass |-> IF superclass.t = "class" THEN superclass.n ELSE 0,
                methods |-> m.methods])]
      s4 == IF superclass # Nil
            THEN [s3 EXCEPT !.environment = s3.envs[s3.environment].enclosing]
            ELSE s3
  IN Environment_assign(s4, s4.environment, stmt.name, ClassRef(Len(s3.classes)))

Interpreter_visitClassStmt(stmt, st) ==
  Bind(IF stmt.superclass.k # "null" THEN Interpreter_evaluate(stmt.superclass, st)
       ELSE Ok(st, Nil), LAMBDA sc :
    IF sc.sig # "ok" THEN sc
    ELSE IF stmt.superclass.k # "null" /\ sc.v.t # "class"
    THEN ThrowRuntimeError(sc.st, "Superclass must be a class.")
    ELSE Interpreter_defineClass(stmt, sc.v, sc.st))

Interpreter_visitFunStmt(stmt, st) ==
  LET s1 == NewLoxFun(st, stmt, st.environment, FALSE, 0) IN
  Ok(Environment_define(s1, s1.environment, stmt.name, FunRef(LastFun(s1))), Nil)

Interpreter_visitIfStmt(stmt, st) ==
  Bind(Interpreter_evaluate(stmt.condition, st), LAMBDA c :
    IF c.sig # "ok" THEN c
    ELSE IF Interpreter_isTruthy(c.v) THEN Interpreter_execute(stmt.thenBranch, c.st)
    ELSE IF stmt.elseBranch.k # "null" THEN Interpreter_execute(stmt.elseBranch, c.st)
    ELSE Ok(c.st, Nil))

\* console.log(text)
ConsoleLog(st, text) ==
  IF ~text.ok THEN ThrowTypeError(st)
  ELSE Ok([st EXCEPT !.out = Append(@, text.text)], Nil)

Interpreter_visitPrintStmt(stmt, st) ==
  Bind(Interpreter_evaluate(stmt.expression, st), LAMBDA r :
    IF r.sig # "ok" THEN r
    ELSE ConsoleLog(r.st, Interpreter_stringify(r.st, r.v)))

Interpreter_visitReturnStmt(stmt, st) ==
  Bind(IF stmt.value.k # "null" THEN Interpreter_evaluate(stmt.value, st)
       ELSE Ok(st, Nil), LAMBDA r :
    IF r.sig # "ok" THEN r ELSE ThrowReturn(r.st, r.v))

\* a visitVarStmt that writes to the nearest binding of the name, when there
\* is one, in place of defining the name in the current environment
Interpreter_visitVarStmt_nearestBinding(stmt, st) ==
  Bind(IF stmt.initializer.k # "null" THEN Interpreter_evaluate(stmt.initializer, st)
       ELSE Ok(st, Nil), LAMBDA r :
    IF r.sig # "ok" THEN r
    ELSE IF Environment_owner(r.st, r.st.environment, stmt.name) # 0
    THEN Ok(Environment_define(r.st, Environment_owner(r.st, r.st.environment, stmt.name),
                               stmt.name, r.v), Nil)
    ELSE Ok(Environment_define(r.st, r.st.environment, stmt.name, r.v), Nil))

Interpreter_visitVarStmt(stmt, st) ==
  Bind(IF stmt.initializer.k # "null" THEN Interpreter_evaluate(stmt.initializer, st)
       ELSE Ok(st, Nil), LAMBDA r :
    IF r.sig # "ok" THEN r
    ELSE Ok(Environment_define(r.st, r.st.environment, stmt.name, r.v), Nil))

\* a loop that a return in its body only leaves
Interpreter_whileLoop_returnBreaks(stmt, st) ==
  Bind(Interpreter_evaluate(stmt.condition, st), LAMBDA c :
    IF c.sig # "ok" THEN c
    ELSE IF ~Interpreter_isTruthy(c.v) THEN Ok(c.st, Nil)
    ELSE Bind(Interpreter_execute(stmt.body, c.st), LAMBDA b :
           IF b.sig = "Return" THEN Ok(b.st, Nil)
           ELSE IF b.sig # "ok" THEN b ELSE Interpreter_whileLoop(stmt, b.st)))

\* visitWhileStmt: one pass of the loop and then the rest of it
Interpreter_whileLoop(stmt, st) ==
  Bind(Interpreter_evaluate(stmt.condition, st), LAMBDA c :
    IF c.sig # "ok" THEN c
    ELSE IF ~Interpreter_isTruthy(c.v) THEN Ok(c.st, Nil)
    ELSE Bind(Interpreter_execute(stmt.body, c.st), LAMBDA b :
           IF b.sig # "ok" THEN b ELSE Interpreter_whileLoop(stmt, b.st)))

Interpreter_visitExpressionStmt(stmt, st) ==
  Bind(Interpreter_evaluate(stmt.expression, st), LAMBDA r :
    IF r.sig # "ok" THEN r ELSE Ok(r.st, Nil))

\* history: a statement is started after a RuntimeError was raised
NoteExecute(st) ==
  IF st.raised > 0 THEN [st EXCEPT !.executedAfterFailure = @ + 1] ELSE st

\* stmt.accept(this)
Interpreter_execute(stmt, st) ==
  CASE stmt.k = "Block" -> Interpreter_visitBlockStmt(stmt, NoteExecute(st))
    [] stmt.k = "Class" -> Interpreter_visitClassStmt(stmt, NoteExecute(st))
    [] stmt.k = "Expression" -> Interpreter_visitExpressionStmt(stmt, NoteExecute(st))
    [] stmt.k = "Fun" -> Interpreter_visitFunStmt(stmt, NoteExecute(st))
    [] stmt.k = "If" -> Interpreter_visitIfStmt(stmt, NoteExecute(st))
    [] stmt.k = "Print" -> Interpreter_visitPrintStmt(stmt, NoteExecute(st))
    [] stmt.k = "Return" -> Interpreter_visitReturnStmt(stmt, NoteExecute(st))
    [] stmt.k = "Var" -> Interpreter_visitVarStmt(stmt, NoteExecute(st))
    [] stmt.k = "While" -> Interpreter_whileLoop(stmt, NoteExecute(st))

-----
(* Sources.  A source text is given by what Scanner.scanTokens and          *)
(* Parser.parse make of it: the diagnostics they report and the statement   *)
(* list parse() returns.  b is the identity of the first node the parser    *)
(* creates: two parses never share a node.  expect is the lexical depth of  *)
(* every use of a name in the text, written by hand from the text (a global *)
(* use has none); the resolver is checked against it.                       *)

Num0 == LiteralExpr(Num(0))
Num1 == LiteralExpr(Num(1))
NegateString == ExpressionStmt(UnaryExpr("-", LiteralExpr(Str("a"))))   \* -"a";
PrintString(x) == PrintStmt(LiteralExpr(Str(x)))

Source(name, a, c, n, diagnostics, stmts, expect) ==
  [name |-> name, a |-> a, c |-> c, n |-> n, diagnostics |-> diagnostics,
   stmts |-> stmts, expect |-> expect]

\* print a + c;
SrcAdd(a, c, b) ==
  Source("add", a, c, 0, <<>>,
    <<PrintStmt(BinaryExpr(LiteralExpr(Num(a)), "+", LiteralExpr(Num(c))))>>, EmptyMap)

\* print "foo" + "bar";
SrcConcat(b) ==
  Source("concat", 0, 0, 0, <<>>,
    <<PrintStmt(BinaryExpr(LiteralExpr(Str("foo")), "+", LiteralExpr(Str("bar"))))>>,
    EmptyMap)

\* var a = A; { var a = C; print a; } print a;
SrcShadow(a, c, b) ==
  Source("shadow", a, c, 0, <<>>,
    <<VarStmt("a", LiteralExpr(Num(a))),
      BlockStmt(<<VarStmt("a", LiteralExpr(Num(c))), PrintStmt(VariableExpr(b + 1, "a"))>>),
      PrintStmt(VariableExpr(b + 2, "a"))>>,
    (b + 1 :> 0))

\* fun make(){ var i=A; fun inc(){ i=i+1; print i; } return inc; } var c=make();
\* then n calls of c: c();  or, every second one,  { var i = 9; c(); }
SrcCounter(a, n, b) ==
  Source("counter", a, 0, n, <<>>,
    <<FunStmt("make", <<>>,
        <<VarStmt("i", LiteralExpr(Num(a))),
          FunStmt("inc", <<>>,
            <<ExpressionStmt(AssignExpr(b + 1, "i",
                BinaryExpr(VariableExpr(b + 2, "i"), "+", Num1))),
              PrintStmt(VariableExpr(b + 3, "i"))>>),
          ReturnStmt(VariableExpr(b + 4, "inc"))>>),
      VarStmt("c", CallExpr(VariableExpr(b + 5, "make"), <<>>))>>
    \o [j \in 1..n |->
         IF j % 2 = 1
         THEN ExpressionStmt(CallExpr(VariableExpr(b + 5 + j, "c"), <<>>))
         ELSE BlockStmt(<<VarStmt("i", LiteralExpr(Num(9))),
                ExpressionStmt(CallExpr(VariableExpr(b + 5 + j, "c"), <<>>))>>)],
    (b + 1 :> 1) @@ (b + 2 :> 1) @@ (b + 3 :> 1) @@ (b + 4 :> 0))

\* class A { init(x){ this.x = x; } get(){ return this.x; } } print A(a).get();
SrcClassInit(a, b) ==
  Source("classInit", a, 0, 0, <<>>,
    <<ClassStmt("A", NoNode,
        <<FunStmt("init", <<"x">>,
            <<ExpressionStmt(SetExpr(ThisExpr(b + 1), "x", VariableExpr(b + 2, "x")))>>),
          FunStmt("get", <<>>, <<ReturnStmt(GetExpr(ThisExpr(b + 3), "x"))>>)>>),
      PrintStmt(CallExpr(GetExpr(
        CallExpr(VariableExpr(b + 4, "A"), <<LiteralExpr(Num(a))>>), "get"), <<>>))>>,
    (b + 1 :> 1) @@ (b + 2 :> 0) @@ (b + 3 :> 1))

\* class A { greet(){ print "A"; } }
\* class B < A { greet(){ super.greet(); print "B"; } } B().greet();
SrcSuper(b) ==
  Source("super", 0, 0, 0, <<>>,
    <<ClassStmt("A", NoNode, <<FunStmt("greet", <<>>, <<PrintString("A")>>)>>),
      ClassStmt("B", VariableExpr(b + 1, "A"),
        <<FunStmt("greet", <<>>,
            <<ExpressionStmt(CallExpr(SuperExpr(b + 2, "greet"), <<>>)),
              PrintString("B")>>)>>),
      ExpressionStmt(CallExpr(GetExpr(
        CallExpr(VariableExpr(b + 3, "B"), <<>>), "greet"), <<>>))>>,
    (b + 2 :> 2))

\* for (var i=0; i<n; i=i+1) print i;   as the parser desugars it
SrcFor(n, b) ==
  Source("for", 0, 0, n, <<>>,
    <<BlockStmt(
        <<VarStmt("i", Num0),
          WhileStmt(BinaryExpr(VariableExpr(b + 1, "i"), "<", LiteralExpr(Num(n))),
            BlockStmt(
              <<PrintStmt(VariableExpr(b + 2, "i")),
                ExpressionStmt(AssignExpr(b + 3, "i",
                  BinaryExpr(VariableExpr(b + 4, "i"), "+", Num1)))>>))>>)>>,
    (b + 1 :> 0) @@ (b + 2 :> 1) @@ (b + 3 :> 1) @@ (b + 4 :> 1))

\* print clock() - clock() <= 0;
SrcClock(b) ==
  Source("clock", 0, 0, 0, <<>>,
    <<PrintStmt(BinaryExpr(
        BinaryExpr(CallExpr(VariableExpr(b + 1, "clock"), <<>>), "-",
                   CallExpr(VariableExpr(b + 2, "clock"), <<>>)), "<=", Num0))>>,
    EmptyMap)

\* "a" + 1; print "later";
SrcAddMixed(b) ==
  Source("addMixed", 0, 0, 0, <<>>,
    <<ExpressionStmt(BinaryExpr(LiteralExpr(Str("a")), "+", Num1)),
      PrintString("later")>>, EmptyMap)

\* { var a = a; }
SrcSelfInit(b) ==
  Source("selfInit", 0, 0, 0, <<>>,
    <<BlockStmt(<<VarStmt("a", VariableExpr(b + 1, "a"))>>), PrintString("later")>>,
    (b + 1 :> 0))

\* print "first"; return 3;
SrcTopReturn(b) ==
  Source("topReturn", 0, 0, 0, <<>>,
    <<PrintString("first"), ReturnStmt(LiteralExpr(Num(3)))>>, EmptyMap)

\* var a = "global"; { fun showA() { print a; } showA(); var a = "block"; showA(); }
SrcClosureShadow(b) ==
  Source("closureShadow", 0, 0, 0, <<>>,
    <<VarStmt("a", LiteralExpr(Str("global"))),
      BlockStmt(
        <<FunStmt("showA", <<>>, <<PrintStmt(VariableExpr(b + 1, "a"))>>),
          ExpressionStmt(CallExpr(VariableExpr(b + 2, "showA"), <<>>)),
          VarStmt("a", LiteralExpr(Str("block"))),
          ExpressionStmt(CallExpr(VariableExpr(b + 3, "showA"), <<>>))>>)>>,
    (b + 2 :> 0) @@ (b + 3 :> 0))

\* c = 0:  -"a"; print "later";
\* c = 1:  fun f() { -"a"; print "after"; } f(); print "later";
\* c = 2:  class K { m() { -"a"; print "after"; } } K().m(); print "later";
SrcFail(c, b) ==
  Source("fail", 0, c, 0, <<>>,
    CASE c = 0 -> <<NegateString, PrintString("later")>>
      [] c = 1 -> <<FunStmt("f", <<>>, <<NegateString, PrintString("after")>>),
                    ExpressionStmt(CallExpr(VariableExpr(b + 1, "f"), <<>>)),
                    PrintString("later")>>
      [] OTHER -> <<ClassStmt("K", NoNode,
                      <<FunStmt("m", <<>>, <<NegateString, PrintString("after")>>)>>),
                    ExpressionStmt(CallExpr(GetExpr(
                      CallExpr(VariableExpr(b + 1, "K"), <<>>), "m"), <<>>)),
                    PrintString("later")>>,
    EmptyMap)

\* class A {} { var x = a; class B < A { m() { return x; } } print B().m(); }
SrcLocalSubclass(a, b) ==
  Source("localSubclass", a, 0, 0, <<>>,
    <<ClassStmt("A", NoNode, <<>>),
      BlockStmt(
        <<VarStmt("x", LiteralExpr(Num(a))),
          ClassStmt("B", VariableExpr(b + 1, "A"),
            <<FunStmt("m", <<>>, <<ReturnStmt(VariableExpr(b + 2, "x"))>>)>>),
          PrintStmt(CallExpr(GetExpr(
            CallExpr(VariableExpr(b + 3, "B"), <<>>), "m"), <<>>))>>)>>,
    (b + 2 :> 2) @@ (b + 3 :> 0))

\* { class A {} class B < A {} print B; }
SrcLocalSuperclass(b) ==
  Source("localSuperclass", 0, 0, 0, <<>>,
    <<BlockStmt(
        <<ClassStmt("A", NoNode, <<>>),
          ClassStmt("B", VariableExpr(b + 1, "A"), <<>>),
          PrintStmt(VariableExpr(b + 2, "B"))>>)>>,
    (b + 1 :> 0) @@ (b + 2 :> 0))

\* class A { init() { this.x = a; R } } var o = A(); print o.init() == o; print o.x;
\* R is nothing (c = 0),  return;  (c = 1)  or  -"a";  (c = 2)
SrcInitReturn(a, c, b) ==
  Source("initReturn", a, c, 0, <<>>,
    <<ClassStmt("A", NoNode,
        <<FunStmt("init", <<>>,
            <<ExpressionStmt(SetExpr(ThisExpr(b + 1), "x", LiteralExpr(Num(a))))>>
            \o (CASE c = 0 -> <<>>
                  [] c = 1 -> <<ReturnStmt(NoNode)>>
                  [] OTHER -> <<NegateString>>))>>),
      VarStmt("o", CallExpr(VariableExpr(b + 2, "A"), <<>>)),
      PrintStmt(BinaryExpr(
        CallExpr(GetExpr(VariableExpr(b + 3, "o"), "init"), <<>>), "==",
        VariableExpr(b + 4, "o"))),
      PrintStmt(GetExpr(VariableExpr(b + 5, "o"), "x"))>>,
    (b + 1 :> 1))

\* fun f(x) { { var y = x; { R } } print "unreached"; } print f(a); print "next";
\* R is  return y;  (c = 0),  return;  (c = 1)  or  -"a";  (c = 2)
SrcBlockExit(a, c, b) ==
  Source("blockExit", a, c, 0, <<>>,
    <<FunStmt("f", <<"x">>,
        <<BlockStmt(
            <<VarStmt("y", VariableExpr(b + 1, "x")),
              BlockStmt(<<CASE c = 0 -> ReturnStmt(VariableExpr(b + 2, "y"))
                            [] c = 1 -> ReturnStmt(NoNode)
                            [] OTHER -> NegateString>>)>>),
          PrintString("unreached")>>),
      PrintStmt(CallExpr(VariableExpr(b + 3, "f"), <<LiteralExpr(Num(a))>>)),
      PrintString("next")>>,
    IF c = 0 THEN (b + 1 :> 1) @@ (b + 2 :> 1) ELSE (b + 1 :> 1))

\* var x = 1; { var x = 2; { -"a"; } print "unreached"; } print x;
SrcBlockFail(b) ==
  Source("blockFail", 0, 0, 0, <<>>,
    <<VarStmt("x", Num1),
      BlockStmt(<<VarStmt("x", LiteralExpr(Num(2))), BlockStmt(<<NegateString>>),
                  PrintString("unreached")>>),
      PrintStmt(VariableExpr(b + 1, "x"))>>,
    EmptyMap)

\* c = 0:  print "first"; class A { init() { return 1; } }
\* c = 1:  print "first"; print this;
\* c = 2:  print "first"; { var a; var a; }
SrcResolverError(c, b) ==
  Source("resolverError", 0, c, 0, <<>>,
    <<PrintString("first"),
      CASE c = 0 -> ClassStmt("A", NoNode,
                      <<FunStmt("init", <<>>, <<ReturnStmt(Num1)>>)>>)
        [] c = 1 -> PrintStmt(ThisExpr(b + 1))
        [] OTHER -> BlockStmt(<<VarStmt("a", NoNode), VarStmt("a", NoNode)>>)>>,
    EmptyMap)

\* c = 0:  print "first"; @       (the scanner reports the character)
\* c = 1:  print "first"; print ; (the parser reports the second statement)
\* c = 2:  the empty text
SrcSyntax(c, b) ==
  Source("syntax", 0, c, 0,
    CASE c = 0 -> <<ErrorReporter_scannerError(TokenLine, "Unexpected character.")>>
      [] c = 1 -> <<ErrorReporter_parserError(FALSE, ";", "Expect expression.")>>
      [] OTHER -> <<>>,
    IF c = 2 THEN <<>> ELSE <<PrintString("first")>>, EmptyMap)

\* fun f() { -"a"; } print f(); print "later";
SrcPrintUndefined(b) ==
  Source("printUndefined", 0, 0, 0, <<>>,
    <<FunStmt("f", <<>>, <<NegateString>>),
      PrintStmt(CallExpr(VariableExpr(b + 1, "f"), <<>>)),
      PrintString("later")>>,
    EmptyMap)

\* fun f(n, m) { var local = n + m; if (n < C) f(n + 1, local);
\*                print n; print m; print local; }  f(0, A);
SrcRecursion(a, c, b) ==
  Source("recursion", a, c, 0, <<>>,
    <<FunStmt("f", <<"n", "m">>,
        <<VarStmt("local", BinaryExpr(VariableExpr(b + 1, "n"), "+",
                                      VariableExpr(b + 2, "m"))),
          IfStmt(BinaryExpr(VariableExpr(b + 3, "n"), "<", LiteralExpr(Num(c))),
                 ExpressionStmt(CallExpr(VariableExpr(b + 4, "f"),
                   <<BinaryExpr(VariableExpr(b + 5, "n"), "+", Num1),
                     VariableExpr(b + 6, "local")>>)),
                 NoNode),
          PrintStmt(VariableExpr(b + 7, "n")),
          PrintStmt(VariableExpr(b + 8, "m")),
          PrintStmt(VariableExpr(b + 9, "local"))>>),
      ExpressionStmt(CallExpr(VariableExpr(b + 10, "f"),
                              <<Num0, LiteralExpr(Num(a))>>))>>,
    (b + 1 :> 0) @@ (b + 2 :> 0) @@ (b + 3 :> 0) @@ (b + 5 :> 0) @@ (b + 6 :> 0) @@
    (b + 7 :> 0) @@ (b + 8 :> 0) @@ (b + 9 :> 0))

\* fun p(x) { print x; return x; }  and then, by c,
\*   var g = "s";                        g(p(A), p(2));  print "after";
\*   fun g(y) { print "body"; }          g(p(A), p(2));  print "after";
\*   class g { init(y) { print "init"; } }  g(p(A), p(2));  print "after";
SrcBadCall(a, c, b) ==
  Source("badCall", a, c, 0, <<>>,
    <<FunStmt("p", <<"x">>,
        <<PrintStmt(VariableExpr(b + 1, "x")), ReturnStmt(VariableExpr(b + 2, "x"))>>),
      CASE c = 0 -> VarStmt("g", LiteralExpr(Str("s")))
        [] c = 1 -> FunStmt("g", <<"y">>, <<PrintString("body")>>)
        [] OTHER -> ClassStmt("g", NoNode,
                      <<FunStmt("init", <<"y">>, <<PrintString("init")>>)>>),
      ExpressionStmt(CallExpr(VariableExpr(b + 3, "g"),
        <<CallExpr(VariableExpr(b + 4, "p"), <<LiteralExpr(Num(a))>>),
          CallExpr(VariableExpr(b + 5, "p"), <<LiteralExpr(Num(2))>>)>>)),
      PrintString("after")>>,
    (b + 1 :> 0) @@ (b + 2 :> 0))

\* class A { n() { return "A.n"; } m() { return this.x; } }
\* class B < A { n() { return "B.n"; } }
\* var o = B(); o.x = A; print o.n(); var w = o.m; print w();
\* o.n = "field"; print o.n;
\* and then, by c,  print o.zz;  or  print "s".n;  or nothing;  print "after";
SrcProperty(a, c, b) ==
  Source("property", a, c, 0, <<>>,
    <<ClassStmt("A", NoNode,
        <<FunStmt("n", <<>>, <<ReturnStmt(LiteralExpr(Str("A.n")))>>),
          FunStmt("m", <<>>, <<ReturnStmt(GetExpr(ThisExpr(b + 1), "x"))>>)>>),
      ClassStmt("B", VariableExpr(b + 2, "A"),
        <<FunStmt("n", <<>>, <<ReturnStmt(LiteralExpr(Str("B.n")))>>)>>),
      VarStmt("o", CallExpr(VariableExpr(b + 3, "B"), <<>>)),
      ExpressionStmt(SetExpr(VariableExpr(b + 4, "o"), "x", LiteralExpr(Num(a)))),
      PrintStmt(CallExpr(GetExpr(VariableExpr(b + 5, "o"), "n"), <<>>)),
      VarStmt("w", GetExpr(VariableExpr(b + 6, "o"), "m")),
      PrintStmt(CallExpr(VariableExpr(b + 7, "w"), <<>>)),
      ExpressionStmt(SetExpr(VariableExpr(b + 8, "o"), "n", LiteralExpr(Str("field")))),
      PrintStmt(GetExpr(VariableExpr(b + 9, "o"), "n"))>>
    \o (CASE c = 0 -> <<PrintStmt(GetExpr(VariableExpr(b + 10, "o"), "zz"))>>
          [] c = 1 -> <<PrintStmt(GetExpr(LiteralExpr(Str("s")), "n"))>>
          [] OTHER -> <<>>)
    \o <<PrintString("after")>>,
    (b + 1 :> 1))

\* class A { init(x, y) { this.s = x + y; } }  class B < A {}  class C {}
\* and then, by c,  print B(A, 1).s; C();  or  B();  or  C(1);   print "after";
SrcClassArity(a, c, b) ==
  Source("classArity", a, c, 0, <<>>,
    <<ClassStmt("A", NoNode,
        <<FunStmt("init", <<"x", "y">>,
            <<ExpressionStmt(SetExpr(ThisExpr(b + 1), "s",
                BinaryExpr(VariableExpr(b + 2, "x"), "+", VariableExpr(b + 3, "y"))))>>)>>),
      ClassStmt("B", VariableExpr(b + 4, "A"), <<>>),
      ClassStmt("C", NoNode, <<>>)>>
    \o (CASE c = 0 ->
               <<PrintStmt(GetExpr(CallExpr(VariableExpr(b + 5, "B"),
                                            <<LiteralExpr(Num(a)), Num1>>), "s")),
                 ExpressionStmt(CallExpr(VariableExpr(b + 6, "C"), <<>>))>>
          [] c = 1 -> <<ExpressionStmt(CallExpr(VariableExpr(b + 5, "B"), <<>>))>>
          [] OTHER -> <<ExpressionStmt(CallExpr(VariableExpr(b + 6, "C"), <<Num1>>))>>)
    \o <<PrintString("after")>>,
    (b + 1 :> 1) @@ (b + 2 :> 0) @@ (b + 3 :> 0))

\* var a = A; { var a = C; { var a = 9; print a; } print a; } print a;
SrcNestedShadow(a, c, b) ==
  Source("nestedShadow", a, c, 0, <<>>,
    <<VarStmt("a", LiteralExpr(Num(a))),
      BlockStmt(<<VarStmt("a", LiteralExpr(Num(c))),
                  BlockStmt(<<VarStmt("a", LiteralExpr(Num(9))),
                              PrintStmt(VariableExpr(b + 1, "a"))>>),
                  PrintStmt(VariableExpr(b + 2, "a"))>>),
      PrintStmt(VariableExpr(b + 3, "a"))>>,
    (b + 1 :> 0) @@ (b + 2 :> 0))

\* fun inner(n) { while (true) { if (n == n) { return n; } print "unreachedLoop"; }
\*                 print "unreachedBody"; }
\* fun outer(x) { var r = inner(x); print r; { return; } print "unreachedOuter"; }
\* print outer(A); print "after";
SrcNestedReturn(a, b) ==
  Source("nestedReturn", a, 0, 0, <<>>,
    <<FunStmt("inner", <<"n">>,
        <<WhileStmt(LiteralExpr(Bool(TRUE)),
            BlockStmt(
              <<IfStmt(BinaryExpr(VariableExpr(b + 1, "n"), "==", VariableExpr(b + 2, "n")),
                       BlockStmt(<<ReturnStmt(VariableExpr(b + 3, "n"))>>), NoNode),
                PrintString("unreachedLoop")>>)),
          PrintString("unreachedBody")>>),
      FunStmt("outer", <<"x">>,
        <<VarStmt("r", CallExpr(VariableExpr(b + 4, "inner"),
                                <<VariableExpr(b + 5, "x")>>)),
          PrintStmt(VariableExpr(b + 6, "r")),
          BlockStmt(<<ReturnStmt(NoNode)>>),
          PrintString("unreachedOuter")>>),
      PrintStmt(CallExpr(VariableExpr(b + 7, "outer"), <<LiteralExpr(Num(a))>>)),
      PrintString("after")>>,
    (b + 1 :> 1) @@ (b + 2 :> 1) @@ (b + 3 :> 2) @@ (b + 5 :> 0) @@ (b + 6 :> 0))

\* c = 0:  fun f() { return 1; } { return; } return 2; print "ran";
\* c = 1:  class A { init() { fun g() { return 1; } return; } } print "ran";
\* else:   class A { init() { fun g() { return 1; } return 1; } m() { return 1; } }
\*         print "ran";
SrcReturns(c, b) ==
  Source("returns", 0, c, 0, <<>>,
    (CASE c = 0 -> <<FunStmt("f", <<>>, <<ReturnStmt(Num1)>>),
                     BlockStmt(<<ReturnStmt(NoNode)>>),
                     ReturnStmt(LiteralExpr(Num(2)))>>
       [] c = 1 -> <<ClassStmt("A", NoNode,
                       <<FunStmt("init", <<>>,
                           <<FunStmt("g", <<>>, <<ReturnStmt(Num1)>>),
                             ReturnStmt(NoNode)>>)>>)>>
       [] OTHER -> <<ClassStmt("A", NoNode,
                       <<FunStmt("init", <<>>,
                           <<FunStmt("g", <<>>, <<ReturnStmt(Num1)>>),
                             ReturnStmt(Num1)>>),
                         FunStmt("m", <<>>, <<ReturnStmt(Num1)>>)>>)>>)
    \o <<PrintString("ran")>>,
    EmptyMap)

\* c = 0:  var a = 1; var a = a; print a;
\* c = 1:  fun f() { var a = a; } print "ran";
\* else:   fun f(a) { var a; { var a; var a = a; } } print "ran";
SrcVarScopes(c, b) ==
  Source("varScopes", 0, c, 0, <<>>,
    CASE c = 0 -> <<VarStmt("a", Num1), VarStmt("a", VariableExpr(b + 1, "a")),
                    PrintStmt(VariableExpr(b + 2, "a"))>>
      [] c = 1 -> <<FunStmt("f", <<>>, <<VarStmt("a", VariableExpr(b + 1, "a"))>>),
                    PrintString("ran")>>
      [] OTHER -> <<FunStmt("f", <<"a">>,
                      <<VarStmt("a", NoNode),
                        BlockStmt(<<VarStmt("a", NoNode),
                                    VarStmt("a", VariableExpr(b + 1, "a"))>>)>>),
                    PrintString("ran")>>,
    IF c = 0 THEN EmptyMap ELSE (b + 1 :> 0))

\* the left operand L of SrcLogical: nil, false, true, 0, "", "s" or a number
LogicalOperand(a, c) ==
  CASE c = 0 /\ a = 0 -> Nil
    [] c = 0 /\ a = 1 -> Bool(FALSE)
    [] c = 0 -> Bool(TRUE)
    [] c = 1 /\ a = 0 -> Str("")
    [] c = 1 -> Str("s")
    [] OTHER -> Num(a)

\* fun p(x) { print x; return x; }
\* print L or p("b");  print L and p("b");
\* print (L or false) == L;  print (L and true) == L;
SrcLogical(a, c, b) ==
  LET L == LiteralExpr(LogicalOperand(a, c))
      pb == CallExpr(VariableExpr(b + 3, "p"), <<LiteralExpr(Str("b"))>>)
  IN Source("logical", a, c, 0, <<>>,
       <<FunStmt("p", <<"x">>,
           <<PrintStmt(VariableExpr(b + 1, "x")), ReturnStmt(VariableExpr(b + 2, "x"))>>),
         PrintStmt(LogicalExpr(L, "or", pb)),
         PrintStmt(LogicalExpr(L, "and", pb)),
         PrintStmt(BinaryExpr(GroupingExpr(LogicalExpr(L, "or", LiteralExpr(Bool(FALSE)))),
                              "==", L)),
         PrintStmt(BinaryExpr(GroupingExpr(LogicalExpr(L, "and", LiteralExpr(Bool(TRUE)))),
                              "==", L))>>,
       (b + 1 :> 0) @@ (b + 2 :> 0))

\* c = 0, 1:  class A { m() { { -"a"; } } }
\*            { class B < A { n() { { this.m(); } } }  B().n();  T }
\*            print "later";            where T is  { -"a"; }  for c = 0 and
\*                                      print "done";  for c = 1
\* else:      var A = 1; { class B < A {} } print "later";
SrcDeepFail(c, b) ==
  Source("deepFail", 0, c, 0, <<>>,
    IF c \in {0, 1}
    THEN <<ClassStmt("A", NoNode,
             <<FunStmt("m", <<>>, <<BlockStmt(<<NegateString>>)>>)>>),
           BlockStmt(
             <<ClassStmt("B", VariableExpr(b + 1, "A"),
                 <<FunStmt("n", <<>>,
                     <<BlockStmt(<<ExpressionStmt(
                         CallExpr(GetExpr(ThisExpr(b + 2), "m"), <<>>))>>)>>)>>),
               ExpressionStmt(CallExpr(GetExpr(
                 CallExpr(VariableExpr(b + 3, "B"), <<>>), "n"), <<>>)),
               IF c = 0 THEN BlockStmt(<<NegateString>>) ELSE PrintString("done")>>),
           PrintString("later")>>
    ELSE <<VarStmt("A", Num1),
           BlockStmt(<<ClassStmt("B", VariableExpr(b + 1, "A"), <<>>)>>),
           PrintString("later")>>,
    IF c \in {0, 1} THEN (b + 2 :> 2) @@ (b + 3 :> 0) ELSE EmptyMap)

\* class P { init(v) { this.v = v; } get() { return this.v; } }
\* var p = P(A); var q = P(A); var g = p.get; var h = q.get;
\* q.v = C + 10; print g(); print h();
\* p.v = C + 20; print g(); print h();
\* print p.get == p.get; print g == g;
SrcInstances(a, c, b) ==
  LET Var(i, x) == VariableExpr(b + i, x)
      NewP(i) == CallExpr(Var(i, "P"), <<LiteralExpr(Num(a))>>)
      PrintCall(i, x) == PrintStmt(CallExpr(Var(i, x), <<>>))
  IN Source("instances", a, c, 0, <<>>,
       <<ClassStmt("P", NoNode,
           <<FunStmt("init", <<"v">>,
               <<ExpressionStmt(SetExpr(ThisExpr(b + 1), "v", Var(2, "v")))>>),
             FunStmt("get", <<>>, <<ReturnStmt(GetExpr(ThisExpr(b + 3), "v"))>>)>>),
         VarStmt("p", NewP(4)), VarStmt("q", NewP(5)),
         VarStmt("g", GetExpr(Var(6, "p"), "get")),
         VarStmt("h", GetExpr(Var(7, "q"), "get")),
         ExpressionStmt(SetExpr(Var(8, "q"), "v", LiteralExpr(Num(c + 10)))),
         PrintCall(9, "g"), PrintCall(10, "h"),
         ExpressionStmt(SetExpr(Var(11, "p"), "v", LiteralExpr(Num(c + 20)))),
         PrintCall(12, "g"), PrintCall(13, "h"),
         PrintStmt(BinaryExpr(GetExpr(Var(14, "p"), "get"), "==",
                              GetExpr(Var(15, "p"), "get"))),
         PrintStmt(BinaryExpr(Var(16, "g"), "==", Var(17, "g")))>>,
       (b + 1 :> 1) @@ (b + 2 :> 0) @@ (b + 3 :> 1))

\* var total = 0;
\* fun add(n) { var step = n; { total = total + step; } return total; }
SrcPromptDefine(b) ==
  Source("promptDefine", 0, 0, 0, <<>>,
    <<VarStmt("total", Num0),
      FunStmt("add", <<"n">>,
        <<VarStmt("step", VariableExpr(b + 1, "n")),
          BlockStmt(<<ExpressionStmt(AssignExpr(b + 2, "total",
            BinaryExpr(VariableExpr(b + 3, "total"), "+",
                       VariableExpr(b + 4, "step"))))>>),
          ReturnStmt(VariableExpr(b + 5, "total"))>>)>>,
    (b + 1 :> 0) @@ (b + 4 :> 1))

\* print add(1); print total;
SrcPromptUse(b) ==
  Source("promptUse", 0, 0, 0, <<>>,
    <<PrintStmt(CallExpr(VariableExpr(b + 1, "add"), <<Num1>>)),
      PrintStmt(VariableExpr(b + 2, "total"))>>,
    EmptyMap)

SourceIds == 1..34

\* the i-th source, with its literals a and c and its repetition count n
SourceText(i, a, c, n, b) ==
  CASE i = 1 -> SrcAdd(a, c, b)
    [] i = 2 -> SrcConcat(b)
    [] i = 3 -> SrcShadow(a, c, b)
    [] i = 4 -> SrcCounter(a, n, b)
    [] i = 5 -> SrcClassInit(a, b)
    [] i = 6 -> SrcSuper(b)
    [] i = 7 -> SrcFor(n, b)
    [] i = 8 -> SrcClock(b)
    [] i = 9 -> SrcAddMixed(b)
    [] i = 10 -> SrcSelfInit(b)
    [] i = 11 -> SrcTopReturn(b)
    [] i = 12 -> SrcClosureShadow(b)
    [] i = 13 -> SrcFail(c, b)
    [] i = 14 -> SrcLocalSubclass(a, b)
    [] i = 15 -> SrcLocalSuperclass(b)
    [] i = 16 -> SrcInitReturn(a, c, b)
    [] i = 17 -> SrcBlockExit(a, c, b)
    [] i = 18 -> SrcBlockFail(b)
    [] i = 19 -> SrcResolverError(c, b)
    [] i = 20 -> SrcSyntax(c, b)
    [] i = 21 -> SrcPrintUndefined(b)
    [] i = 22 -> SrcRecursion(a, c, b)
    [] i = 23 -> SrcBadCall(a, c, b)
    [] i = 24 -> SrcProperty(a, c, b)
    [] i = 25 -> SrcClassArity(a, c, b)
    [] i = 26 -> SrcNestedShadow(a, c, b)
    [] i = 27 -> SrcNestedReturn(a, b)
    [] i = 28 -> SrcReturns(c, b)
    [] i = 29 -> SrcVarScopes(c, b)
    [] i = 30 -> SrcLogical(a, c, b)
    [] i = 31 -> SrcDeepFail(c, b)
    [] i = 32 -> SrcInstances(a, c, b)
    [] i = 33 -> SrcPromptDefine(b)
    [] i = 34 -> SrcPromptUse(b)

-----------------------------------------------------------------------------
(* The driver (Lox.main, runFile, runPrompt, run) *)

IdStride == 100     \* node identities of the k-th parse start at k * IdStride

NoSource == Source("", 0, 0, 0, <<>>, <<>>, EmptyMap)

\* the sources typed at the prompt: add, counter, fail, resolverError, syntax,
\* promptDefine, promptUse
PromptSourceIds == {1, 4, 13, 19, 20, 33, 34}

\* history of one run(source): whether it reported a diagnostic, reached the
\* resolver and the interpreter, the output, the globals and the number of
\* diagnostics when it began, and the Resolver object as resolve left it
NewRun(out, globals, errs) ==
  [interpretCalled |-> FALSE, resolved |-> FALSE, reported |-> FALSE,
   out |-> out, globals |-> globals, errs |-> errs,
   resolver |-> NewResolver(EmptyMap)]

\* history: the interpreter's record of an execution begins with every run
ClearHistory(st) ==
  [st EXCEPT !.raised = 0, !.executedAfterFailure = 0, !.lookups = {},
             !.blockExits = {}, !.calls = {}]

Init ==
  /\ phase = "main"
  /\ argv \in [len : 2..(2 + MaxArgs), arg : {"", "script.lox"}]
  /\ mode = "none"
  /\ source = NoSource
  /\ statements = <<>>
  /\ ip = 1
  /\ hadError = FALSE
  /\ hadRuntimeError = FALSE
  /\ stderr = <<>>
  /\ interpreter = NewInterpreter
  /\ exitCode = NoExit
  /\ lines = 0
  /\ hist = NewRun(<<>>, NewInterpreter.envs[Globals].values, 0)
  /\ scanner = NoScanner
  /\ parser = NoParser

\* process.exit(code), or the end of the process when nothing is left to run
Exit(code) == phase' = "exited" /\ exitCode' = code

\* Lox.main: process.argv holds the node binary, the script and the arguments
Main ==
  /\ phase = "main"
  /\ IF argv.len < 2
     THEN /\ interpreter' = [interpreter EXCEPT !.out = Append(@, "Usage: jlox [script]")]
          /\ Exit(64)
          /\ mode' = mode
     ELSE IF argv.len = 3 /\ argv.arg # ""
     THEN phase' = "runFile" /\ mode' = "file" /\ UNCHANGED <<interpreter, exitCode>>
     ELSE phase' = "runPrompt" /\ mode' = "prompt" /\ UNCHANGED <<interpreter, exitCode>>
  /\ UNCHANGED <<argv, source, statements, ip, hadError, hadRuntimeError, stderr,
                 lines, hist>>
  /\ UNCHANGED front

\* runFile up to the call of run: the file is missing, or holds one of the sources
ReadFile ==
  /\ phase = "runFile"
  /\ \/ /\ stderr' = Append(stderr, "File " \o argv.arg \o " not found")
        /\ Exit(1)
        /\ UNCHANGED <<source, hist>>
     \/ \E i \in SourceIds, a \in 0..MaxLit, c \in 0..MaxLit, n \in 1..MaxCalls :
          /\ source' = SourceText(i, a, c, n, 0)
          /\ phase' = "scan"
          /\ hist' = NewRun(interpreter.out, interpreter.envs[Globals].values,
                           Len(stderr))
          /\ UNCHANGED <<stderr, exitCode>>
  /\ UNCHANGED <<argv, mode, statements, ip, hadError, hadRuntimeError, interpreter,
                 lines>>
  /\ UNCHANGED front

\* a runPrompt that makes a new Interpreter for every line
ReadLine_newInterpreter ==
  /\ phase = "runPrompt"
  /\ \/ Exit(0) /\ UNCHANGED <<source, hist, lines, interpreter>>
     \/ /\ lines < MaxLines
        /\ \E i \in PromptSourceIds, c \in 0..MaxLit :
             source' = SourceText(i, 0, c, 1, (lines + 1) * IdStride)
        /\ lines' = lines + 1
        /\ phase' = "scan"
        /\ hist' = NewRun(interpreter.out, interpreter.envs[Globals].values,
                         Len(stderr))
        /\ interpreter' = [NewInterpreter EXCEPT !.out = interpreter.out]
        /\ UNCHANGED exitCode
  /\ UNCHANGED <<argv, mode, statements, ip, hadError, hadRuntimeError, stderr>>
  /\ UNCHANGED front

\* runPrompt: one pass of the loop up to the call of run; an empty line ends it
ReadLine ==
  /\ phase = "runPrompt"
  /\ \/ Exit(0) /\ UNCHANGED <<source, hist, lines, interpreter>>
     \/ /\ lines < MaxLines
        /\ \E i \in PromptSourceIds, c \in 0..MaxLit :
             source' = SourceText(i, 0, c, 1, (lines + 1) * IdStride)
        /\ lines' = lines + 1
        /\ phase' = "scan"
        /\ hist' = NewRun(interpreter.out, interpreter.envs[Globals].values,
                         Len(stderr))
        /\ interpreter' = ClearHistory(interpreter)
        /\ UNCHANGED exitCode
  /\ UNCHANGED <<argv, mode, statements, ip, hadError, hadRuntimeError, stderr>>
  /\ UNCHANGED front

\* run: scanner.scanTokens(), parser.parse() and the first test of hadError
ScanAndParse ==
  /\ phase = "scan"
  /\ stderr' = stderr \o source.diagnostics
  /\ hadError' = (hadError \/ source.diagnostics # <<>>)
  /\ statements' = source.stmts
  /\ hist' = [hist EXCEPT !.reported = source.diagnostics # <<>>]
  /\ phase' = IF hadError' THEN "ran" ELSE "resolve"
  /\ UNCHANGED <<argv, mode, source, ip, hadRuntimeError, interpreter, exitCode, lines>>
  /\ UNCHANGED front

\* run() without its second test of hadError
AfterResolve_unchecked(error) == "interpret"

\* the end of run() after resolver.resolve(statements): hadError stops it
AfterResolve(error) == IF error THEN "ran" ELSE "interpret"

\* run: resolver.resolve(statements) and the second test of hadError.  A
\* TypeError thrown in the resolver is caught nowhere: the process ends with 1.
Resolve ==
  /\ phase = "resolve"
  /\ LET rs == Resolver_resolve(statements, 1, NewResolver(interpreter.locals)) IN
       /\ interpreter' = [interpreter EXCEPT !.locals = rs.locals]
       /\ stderr' = stderr \o rs.errors
       /\ hadError' = (hadError \/ rs.errors # <<>>)
       /\ hist' = [hist EXCEPT !.reported = @ \/ rs.errors # <<>>, !.resolved = TRUE,
                                !.resolver = rs]
       /\ IF rs.crashed THEN Exit(1)
          ELSE phase' = AfterResolve(hadError') /\ exitCode' = exitCode
  /\ ip' = 1
  /\ UNCHANGED <<argv, mode, source, statements, hadRuntimeError, lines>>
  /\ UNCHANGED front

\* interpret: one statement of its loop and, when it throws, the catch clause.
\* runtimeError(error) reads error.token.line: only a RuntimeError has a token,
\* on any other exception the catch clause throws a TypeError itself.
Interpret ==
  /\ phase = "interpret"
  /\ ip <= Len(statements)
  /\ \E r \in {Interpreter_execute(statements[ip], interpreter)} :
       /\ interpreter' = r.st
       /\ CASE r.sig = "ok" ->
                 /\ ip' = ip + 1
                 /\ UNCHANGED <<phase, stderr, hadRuntimeError, exitCode>>
            [] r.sig = "RuntimeError" ->
                 /\ stderr' = Append(stderr, ErrorReporter_runtimeError(r.msg))
                 /\ hadRuntimeError' = TRUE
                 /\ phase' = "ran"
                 /\ UNCHANGED <<ip, exitCode>>
            [] OTHER ->
                 /\ Exit(1)
                 /\ UNCHANGED <<ip, stderr, hadRuntimeError>>
  /\ hist' = [hist EXCEPT !.interpretCalled = TRUE]
  /\ UNCHANGED <<argv, mode, source, statements, hadError, lines>>
  /\ UNCHANGED front

\* interpret: the loop has run every statement
InterpretReturn ==
  /\ phase = "interpret"
  /\ ip > Len(statements)
  /\ phase' = "ran"
  /\ hist' = [hist EXCEPT !.interpretCalled = TRUE]
  /\ UNCHANGED <<argv, mode, source, statements, ip, hadError, hadRuntimeError,
                 stderr, interpreter, exitCode, lines>>
  /\ UNCHANGED front

\* runFile after run(source)
FileExit ==
  /\ phase = "ran"
  /\ mode = "file"
  /\ Exit(IF hadError THEN 65 ELSE IF hadRuntimeError THEN 70 ELSE 0)
  /\ UNCHANGED <<argv, mode, source, statements, ip, hadError, hadRuntimeError,
                 stderr, interpreter, lines, hist>>
  /\ UNCHANGED front

\* runPrompt without the reset of hadError after run(line)
PromptNext_noReset ==
  /\ phase = "ran"
  /\ mode = "prompt"
  /\ phase' = "runPrompt"
  /\ UNCHANGED <<argv, mode, source, statements, ip, hadError, hadRuntimeError,
                 stderr, interpreter, exitCode, lines, hist>>
  /\ UNCHANGED front

\* runPrompt after run(line)
PromptNext ==
  /\ phase = "ran"
  /\ mode = "prompt"
  /\ hadError' = FALSE
  /\ phase' = "runPrompt"
  /\ UNCHANGED <<argv, mode, source, statements, ip, hadRuntimeError, stderr,
                 interpreter, exitCode, lines, hist>>
  /\ UNCHANGED front

Next ==
  \/ Main
  \/ ReadFile
  \/ ReadLine
  \/ ScanAndParse
  \/ Resolve
  \/ Interpret
  \/ InterpretReturn
  \/ FileExit
  \/ PromptNext

Spec == Init /\ [][Next]_vars

-----------------------------------------------------------------------------
(* The scanner at work: scanTokens() on every text of at most MaxChars      *)
(* characters, one pass of its loop at a time.  Its reports go to stderr    *)
(* and set hadError as ErrorReporter.report does.                           *)

MaxChars == 3       \* length of the texts scanned

\* a digit, a dot, the letters of a keyword, a character of no token, the
\* quote, the slash, the newline, an operator, a blank and the semicolon
ScanChars == {"1", ".", "i", "f", "@", "\"", "/", "\n", "=", " ", ";"}

Texts == UNION {[1..n -> ScanChars] : n \in 0..MaxChars}

\* the variables of the driver
driver == <<phase, argv, mode, source, statements, ip, hadError, hadRuntimeError,
            stderr, interpreter, exitCode, lines, hist>>

\* the driver before main() has done anything
DriverIdle ==
  /\ phase = "main"
  /\ argv = [len |-> 2, arg |-> ""]
  /\ mode = "none"
  /\ source = NoSource
  /\ statements = <<>>
  /\ ip = 1
  /\ hadError = FALSE
  /\ hadRuntimeError = FALSE
  /\ stderr = <<>>
  /\ interpreter = NewInterpreter
  /\ exitCode = NoExit
  /\ lines = 0
  /\ hist = NewRun(<<>>, NewInterpreter.envs[Globals].values, 0)

ScanInit ==
  /\ DriverIdle
  /\ scanner \in {NewScanner(text) : text \in Texts}
  /\ parser = NoParser

\* scanTokens: one pass of  while (!isAtEnd()) { start = current; scanToken(); }
ScanToken ==
  /\ ~scanner.returned
  /\ ~Scanner_isAtEnd(scanner)
  /\ scanner' = Scanner_scanToken(scanner)
  /\ stderr' = scanner'.errors
  /\ hadError' = (hadError \/ Len(scanner'.errors) > Len(scanner.errors))
  /\ UNCHANGED <<phase, argv, mode, source, statements, ip, hadRuntimeError,
                 interpreter, exitCode, lines, hist, parser>>

\* scanTokens: the loop has ended, the EOF token is pushed and the list returned
ScanReturn ==
  /\ ~scanner.returned
  /\ Scanner_isAtEnd(scanner)
  /\ scanner' = Scanner_finish(scanner)
  /\ UNCHANGED <<driver, parser>>

ScanNext == ScanToken \/ ScanReturn

ScanSpec == ScanInit /\ [][ScanNext]_vars /\ WF_vars(ScanNext)

-----------------------------------------------------------------------------
(* The parser at work on its own: parse() on every list of at most MaxTokens *)
(* tokens and the EOF token, one pass of its loop at a time.                 *)

MaxTokens == 5      \* length of the token lists parsed, without the EOF token

\* the token the scanner makes of a lexeme
TokenOf(text) == Scanner_scanTokens(NewScanner(text)).tokens[1]

EofToken == Scanner_scanTokens(NewScanner(<<>>)).tokens[1]

\* a keyword that begins a statement, an identifier, a number, the
\* assignment, the semicolon and the braces
ParseTokens ==
  {TokenOf(<<"p", "r", "i", "n", "t">>), TokenOf(<<"a">>), TokenOf(<<"1">>),
   TokenOf(<<"=">>), TokenOf(<<";">>), TokenOf(<<"{">>), TokenOf(<<"}">>)}

TokenLists ==
  {Append(ts, EofToken) : ts \in UNION {[1..n -> ParseTokens] : n \in 0..MaxTokens}}

ParseInit ==
  /\ DriverIdle
  /\ scanner = NoScanner
  /\ parser \in {NewParser(ts) : ts \in TokenLists}

\* parse(): one pass of  while (!isAtEnd()) { stmt = declaration(); ... }
ParseDeclaration ==
  /\ parser # NoParser
  /\ ~parser.returned
  /\ ~Parser_isAtEnd(parser)
  /\ parser' = Parser_parseStep(parser)
  /\ stderr' = parser'.errors
  /\ hadError' = (hadError \/ Len(parser'.errors) > Len(parser.errors))
  /\ UNCHANGED <<phase, argv, mode, source, statements, ip, hadRuntimeError,
                 interpreter, exitCode, lines, hist, scanner>>

\* parse(): the loop is over, the statements are returned
ParseReturn ==
  /\ parser # NoParser
  /\ ~parser.returned
  /\ Parser_isAtEnd(parser)
  /\ parser' = Parser_finish(parser)
  /\ UNCHANGED <<driver, scanner>>

ParseNext == ParseDeclaration \/ ParseReturn

ParseSpec == ParseInit /\ [][ParseNext]_vars /\ WF_vars(ParseNext)

\* parse() from the moment before the Parser is constructed, on the lists of
\* at most MaxRunTokens tokens that statements and blocks are made of: run()
\* makes the Parser of a token list and calls parse() at once, and the loop
\* of parse() goes from one pass to the next without waiting for anything
MaxRunTokens == 4

RunTokens ==
  {TokenOf(<<"p", "r", "i", "n", "t">>), TokenOf(<<"1">>), TokenOf(<<";">>),
   TokenOf(<<"{">>), TokenOf(<<"}">>)}

RunTokenLists ==
  {Append(ts, EofToken) : ts \in UNION {[1..n -> RunTokens] : n \in 0..MaxRunTokens}}

ParseIdle ==
  /\ DriverIdle
  /\ scanner = NoScanner
  /\ parser = NoParser

\* new Parser(tokens, errorReporter)
ParseStart ==
  /\ parser = NoParser
  /\ \E ts \in RunTokenLists : parser' = NewParser(ts)
  /\ UNCHANGED <<driver, scanner>>

ParseRunNext == ParseStart \/ ParseDeclaration \/ ParseReturn

ParseRunSpec == ParseIdle /\ [][ParseRunNext]_vars /\ WF_vars(ParseRunNext)

-----------------------------------------------------------------------------
(* Properties *)

\* identity of the first node of the current source
SourceBase == IF mode = "prompt" THEN lines * IdStride ELSE 0

\* run(source) has returned, or the process has ended
Finished == phase \in {"ran", "runPrompt", "exited"}

\* the depths the resolver recorded for the nodes of the current source
ResolvedHere ==
  [id \in {i \in DOMAIN interpreter.locals :
             i > SourceBase /\ i < SourceBase + IdStride} |-> interpreter.locals[id]]

\* C1: once a RuntimeError has been raised in a run of interpret, wherever it
\* was raised, no further statement is started, exactly one diagnostic has
\* been reported for the run and hadRuntimeError is set.
C1_RuntimeFailureAborts ==
  interpreter.raised > 0 =>
    /\ interpreter.executedAfterFailure = 0
    /\ hadRuntimeError
    /\ Len(stderr) = hist.errs + 1

\* C1 failing input: -"a" inside the body of f; the rest of the body was
\* skipped, the statement after the call of f has printed, and nothing was
\* reported
C1_FailureInFunction ==
  /\ source.name = "fail" /\ source.c = 1 /\ phase = "ran" /\ mode = "file"
  /\ interpreter.raised = 1 /\ ~hadRuntimeError /\ stderr = <<>>
  /\ interpreter.out = <<"later">>

\* C2: every getAt/assignAt the interpreter makes for an expression the
\* resolver annotated reaches an environment that holds the name.
C2_LookupsHit == \A e \in interpreter.lookups : e.hit

\* C2 failing input: the method of a subclass declared in a block reads the
\* block's variable x two environments up, where only super is, and the
\* program has printed nil
C2_MissInSubclassMethod ==
  /\ source.name = "localSubclass" /\ phase = "ran"
  /\ \E e \in interpreter.lookups : e.name = "x" /\ e.distance = 2 /\ ~e.hit
  /\ interpreter.out = hist.out \o <<"nil">>

\* C3: when the resolver has finished a source without a diagnostic, the
\* depths it recorded are exactly the lexical depths of the uses of names in
\* the text, the superclass name of a class declaration included.
C3_ResolverDepths == phase = "interpret" => ResolvedHere = source.expect

\* C3 failing input: the superclass name A of a class declared in the block
\* that declares A has no depth, and its evaluation has failed in the globals
C3_SuperclassUnresolved ==
  /\ source.name = "localSuperclass" /\ phase = "ran"
  /\ SourceBase + 1 \notin DOMAIN interpreter.locals
  /\ stderr = <<ErrorReporter_runtimeError("Undefined variable 'A'.")>>

\* C4: the program of scenario 6 (a subclass method evaluating super.greet)
\* runs without a failure and prints A then B.
C4_SuperRuns ==
  (source.name = "super" /\ Finished) =>
    /\ exitCode \in {NoExit, 0}
    /\ ~hadError /\ interpreter.raised = 0
    /\ interpreter.out = hist.out \o <<"A", "B">>

\* C4 failing input: the process has ended with 1 in the resolver, scenario 6
\* having printed nothing
C4_ResolverCrash ==
  /\ source.name = "super" /\ phase = "exited" /\ exitCode = 1
  /\ hist.resolved /\ ~hist.interpretCalled /\ interpreter.out = <<>>

\* the lines the counter of scenario 4 prints in its first k calls
CounterOutput(a, k) == [j \in 1..k |-> ToString(a + j)]

\* C5: a closure reads and writes the binding of the scope it was declared
\* in on every call: the counter started at a prints a+1, a+2, ... whatever
\* environment is current at the call (every second call is made from a block
\* that declares the name again), and a function declared before a later
\* declaration of the name it uses prints the same binding on both calls.
C5_ClosureCapture ==
  /\ source.name = "counter" =>
       \E k \in 0..source.n :
         /\ interpreter.out = hist.out \o CounterOutput(source.a, k)
         /\ Finished => k = source.n
  /\ (source.name = "closureShadow" /\ Finished) =>
       interpreter.out = hist.out \o <<"global", "global">>

\* C5 witness: the counter has been called MaxCalls times, once from inside a
\* block declaring its own i, and has printed one line per call.
C5_Witness ==
  /\ source.name = "counter" /\ source.n = MaxCalls /\ phase = "ran"
  /\ interpreter.out = hist.out \o CounterOutput(source.a, MaxCalls)
  /\ \E e \in interpreter.blockExits : e.from = "call" /\ e.before # Globals

\* C6: every call of an init method that runs to its end or executes a bare
\* return yields the instance it is bound to, calling a class yields the
\* instance it created, and so  o.init() == o  prints true and leaves the
\* field init assigned.
C6_InitYieldsInstance ==
  /\ \A e \in interpreter.calls :
       /\ (e.kind = "init" /\ e.how \in {"ok", "Return"}) =>
            e.result = InstanceRef(e.self)
       /\ e.kind = "new" => e.result = InstanceRef(e.self)
  /\ (source.name = "initReturn" /\ source.c \in {0, 1} /\ Finished) =>
       interpreter.out = hist.out \o <<"true", ToString(source.a)>>

\* C6 witness: an init that executes a bare return has been called by the
\* call of its class and then on the instance, and the program has printed
\* that the second call yielded that instance.
C6_Witness ==
  /\ source.name = "initReturn" /\ source.c = 1 /\ phase = "ran"
  /\ \E e \in interpreter.calls : e.kind = "new"
  /\ \E e \in interpreter.calls : e.kind = "init" /\ e.how = "Return"
  /\ interpreter.out = hist.out \o <<"true", ToString(source.a)>>

\* C7: after every call of executeBlock, however it ended, the current
\* environment is the one that was current before the call.
C7_BlockRestores == \A e \in interpreter.blockExits : e.after = e.before

\* C7 witness: a block entered from a local environment has been left by a
\* RuntimeError, and that environment was current again.
C7_Witness ==
  \E e \in interpreter.blockExits :
    /\ e.from = "block" /\ e.how = "RuntimeError"
    /\ e.before # Globals /\ e.after = e.before

\* C8: a run that reported a scan, parse or resolver diagnostic never calls
\* interpret and leaves the output and the globals as they were; a scan or
\* parse diagnostic also skips the resolver.
C8_NoInterpretAfterDiagnostic ==
  /\ hist.reported =>
       /\ ~hist.interpretCalled
       /\ interpreter.out = hist.out
       /\ interpreter.envs[Globals].values = hist.globals
  /\ (source.diagnostics # <<>> /\ phase # "scan") => ~hist.resolved

\* C8 witness: run() has returned for a source with statements to execute in
\* which the resolver, and nothing before it, reported a diagnostic.
C8_Witness ==
  /\ phase = "ran" /\ hist.reported /\ hist.resolved
  /\ source.diagnostics = <<>> /\ Len(statements) > 1

\* C9: in file mode the process ends with 65 when a scan, parse or resolver
\* diagnostic was reported, with 70 when a RuntimeError was raised anywhere
\* in the program, and with 0 otherwise.
C9_ExitCodes ==
  (mode = "file" /\ phase = "exited" /\ source # NoSource) =>
    exitCode = IF hist.reported THEN 65
               ELSE IF interpreter.raised > 0 THEN 70 ELSE 0

\* C9 failing input: a file whose function body raises a RuntimeError has
\* ended with 0
C9_FailureExitsZero ==
  /\ mode = "file" /\ phase = "exited" /\ source.name = "fail" /\ source.c \in {1, 2}
  /\ interpreter.raised > 0 /\ exitCode = 0

\* the number of command-line arguments
Arguments == argv.len - 2

\* C10: with more than one argument main prints the usage line and exits
\* with 64, with one argument naming a file it runs the file, with none it
\* enters the prompt.
C10_Usage ==
  phase # "main" =>
    CASE Arguments > 1 ->
           /\ mode = "none" /\ exitCode = 64
           /\ interpreter.out = <<"Usage: jlox [script]">>
      [] Arguments = 1 -> argv.arg # "" => mode = "file"
      [] OTHER -> mode = "prompt"

\* C10 failing input: started with two arguments, the program is at the prompt
C10_TwoArguments == Arguments = 2 /\ phase = "runPrompt" /\ mode = "prompt"

\* C11: in prompt mode hadError is false whenever a line is about to be read,
\* a line for which no diagnostic is reported is handed to interpret whatever
\* the lines before it reported, and nothing runs once the loop has ended.
C11_PromptResets ==
  [][/\ phase' = "runPrompt" => ~hadError'
     /\ (mode' = "prompt" /\ phase' = "ran" /\ ~hist'.reported) =>
          hist'.interpretCalled
     /\ phase # "exited"]_vars

\* C11 witness: the first line was  print "first"; @  and was reported by the
\* scanner, the second line  print 0 + c;  has been executed and has printed
C11_Witness ==
  /\ mode = "prompt" /\ lines = 2 /\ phase = "ran"
  /\ stderr = <<ErrorReporter_scannerError(TokenLine, "Unexpected character.")>>
  /\ source.name = "add" /\ hist.interpretCalled
  /\ interpreter.out = <<ToString(source.c)>>

\* the types of the tokens of a list
TokenTypes(tokens) == [i \in 1..Len(tokens) |-> tokens[i].type]

\* the text with every character of no token replaced by a blank
Blanked(text) == [i \in 1..Len(text) |-> IF text[i] = "@" THEN " " ELSE text[i]]

\* the number of characters c in the text
Count(text, c) == Cardinality({i \in 1..Len(text) : text[i] = c})

\* what scanTokens has returned: the last token is EOF with an empty lexeme,
\* no other token is EOF, the tokens are those of the text without its
\* characters of no token, and outside strings and comments every such
\* character was reported as Unexpected character.
ScanResultOk ==
  /\ scanner.tokens # <<>>
  /\ scanner.tokens[Len(scanner.tokens)].type = "EOF"
  /\ scanner.tokens[Len(scanner.tokens)].lexeme = ""
  /\ \A i \in 1..(Len(scanner.tokens) - 1) : scanner.tokens[i].type # "EOF"
  /\ TokenTypes(scanner.tokens) =
       TokenTypes(Scanner_scanTokens(NewScanner(Blanked(scanner.source))).tokens)
  /\ hadError = (scanner.errors # <<>>)
  /\ (Count(scanner.source, "\"") = 0 /\ Count(scanner.source, "/") = 0) =>
       /\ Len(scanner.errors) = Count(scanner.source, "@")
       /\ \A i \in 1..Len(scanner.errors) :
            \E line \in 1..scanner.line :
              scanner.errors[i] = ErrorReporter_scannerError(line, "Unexpected character.")

\* C12: for every text scanTokens returns, and what it returns ends with the
\* only EOF token, holds the tokens that follow a character of no token, and
\* hadError is set when such a character or an unterminated string was found.
C12_ScannerTotal ==
  /\ [](scanner.returned => ScanResultOk)
  /\ <>scanner.returned

\* C12 witness: the text  @1"  has been scanned: the character @ and the
\* unterminated string were reported and the number between them is a token
C12_Witness ==
  /\ scanner.returned /\ scanner.source = <<"@", "1", "\"">>
  /\ TokenTypes(scanner.tokens) = <<"NUMBER", "EOF">>
  /\ Len(scanner.errors) = 2 /\ hadError

\* the lexemes of the tokens the parser works on
Lexemes == [i \in DOMAIN parser.tokens |-> parser.tokens[i].lexeme]

\* a parser on the same tokens that begins at position at
ParserAt(at) == [NewParser(parser.tokens) EXCEPT !.current = at]

\* where the tokens say that recovery from an error at position from stops:
\* the first position after the offending token whose previous token is a
\* semicolon or whose next token begins a statement or is the EOF token
SyncPoint(from) ==
  LET last == Len(parser.tokens) - 1
      stops(p) == \/ p = last
                  \/ parser.tokens[p].type = "SEMICOLON"
                  \/ parser.tokens[p + 1].type \in
                       {"CLASS", "FUN", "VAR", "FOR", "IF", "WHILE", "PRINT", "RETURN"}
      first == IF from = last THEN last ELSE from + 1
  IN  CHOOSE p \in first..last : stops(p) /\ \A q \in first..(p - 1) : ~stops(q)

InvalidTargets ==
  {i \in DOMAIN parser.errors :
     parser.errors[i] = ErrorReporter_parserError(FALSE, "=", "Invalid assignment target.")}

RECURSIVE FlattenAll(_)
\* a statement and the declarations nested in it, in source order
Flatten(stmt) ==
  <<stmt>> \o
  CASE stmt.k = "Block" -> FlattenAll(stmt.statements)
    [] stmt.k = "Fun" -> FlattenAll(stmt.body)
    [] stmt.k = "Class" -> FlattenAll(stmt.methods)
    [] stmt.k = "While" -> FlattenAll(<<stmt.body>>)
    [] stmt.k = "If" -> FlattenAll(<<stmt.thenBranch>> \o
                          (IF stmt.elseBranch.k = "null" THEN <<>>
                           ELSE <<stmt.elseBranch>>))
    [] OTHER -> <<>>

FlattenAll(stmts) ==
  IF stmts = <<>> THEN <<>> ELSE Flatten(Head(stmts)) \o FlattenAll(Tail(stmts))

RECURSIVE IsSubsequence(_, _)
IsSubsequence(a, b) ==
  IF a = <<>> THEN TRUE
  ELSE IF b = <<>> THEN FALSE
  ELSE IF Head(a) = Head(b) THEN IsSubsequence(Tail(a), Tail(b))
  ELSE IsSubsequence(a, Tail(b))

RecursionLines(a, k) ==
  <<ToString(k), ToString(a + (k * (k - 1)) \div 2), ToString(a + (k * (k + 1)) \div 2)>>

RECURSIVE RecursionOutput(_, _, _)
\* the output of the recursion program: the deepest activation prints first
RecursionOutput(a, c, k) ==
  IF k > c THEN <<>> ELSE RecursionOutput(a, c, k + 1) \o RecursionLines(a, k)

\* the last parameter of the list that has the name of the i-th
LastParam(params, i) == \A j \in (i + 1)..Len(params) : params[j] # params[i]

\* C14: every call of a user function runs the body in a new environment on
\* the function's closure with each parameter bound to its argument; no two
\* activations share that environment, so an activation of the recursion
\* program prints its own n, m and local after the recursive call returned;
\* a body that ends without a return yields nil.
C14_CallFrames ==
  /\ \A e \in interpreter.calls :
       e.kind \in {"fun", "init"} =>
         /\ e.frame.env \notin {d.frame.env : d \in interpreter.calls \ {e}}
         /\ e.frame.enclosing = e.frame.closure
         /\ DOMAIN e.frame.values = {e.frame.params[i] : i \in DOMAIN e.frame.params}
         /\ \A i \in DOMAIN e.frame.params :
              LastParam(e.frame.params, i) =>
                e.frame.values[e.frame.params[i]] = e.frame.args[i]
         /\ (e.kind = "fun" /\ e.how = "ok") => e.result = Nil
  /\ (Finished /\ source.name = "recursion") =>
       interpreter.out = hist.out \o RecursionOutput(source.a, source.c, 0)

\* the recursion program with MaxLit + 1 activations of f, each in its own
\* environment, has printed its lines
C14_Witness ==
  /\ Finished /\ source.name = "recursion" /\ source.c = MaxLit /\ source.a = 1
  /\ Cardinality({e.frame.env : e \in {d \in interpreter.calls : d.kind = "fun"}})
       = MaxLit + 1
  /\ \A e \in interpreter.calls : e.how = "ok" /\ e.result = Nil
  /\ \E e \in interpreter.calls : e.frame.caller # e.frame.closure
  /\ interpreter.out = RecursionOutput(1, MaxLit, 0)

\* the message of the call the badCall program makes
BadCallMessage ==
  IF source.c = 0 THEN "Can only call functions and classes."
  ELSE "Expected 1 arguments but got 2."

\* C15: the body of a function or initializer is entered only with as many
\* arguments as it has parameters; the call of a value that is no callable,
\* or with the wrong number of arguments, first evaluates the callee and the
\* arguments from left to right (the program prints them), then fails with
\* the message of its case, and neither a statement of the callee nor an
\* initializer runs.
C15_CallChecks ==
  /\ \A e \in interpreter.calls :
       e.kind \in {"fun", "init"} => Len(e.frame.args) = Len(e.frame.params)
  /\ (Finished /\ source.name = "badCall") =>
       /\ interpreter.out = hist.out \o <<ToString(source.a), "2">>
       /\ stderr = <<ErrorReporter_runtimeError(BadCallMessage)>>
       /\ hadRuntimeError
       /\ \A e \in interpreter.calls : e.kind = "fun" /\ e.frame.params = <<"x">>
       /\ interpreter.instances = <<>>

\* the call of a class with two arguments whose init has one parameter has
\* failed after both arguments were printed
C15_Witness ==
  /\ Finished /\ source.name = "badCall" /\ source.c = 2 /\ source.a = 1
  /\ interpreter.out = <<"1", "2">>
  /\ stderr = <<ErrorReporter_runtimeError("Expected 1 arguments but got 2.")>>
  /\ Cardinality(interpreter.calls) = 2

\* C16: reading a property of an instance yields the method of the nearest
\* class bound to the instance (B.n, not A.n; A's m called through a variable
\* reads the instance's x), the field once there is one of the same name as a
\* method, and fails with "Undefined property 'zz'." when there is neither;
\* reading a property of a string fails with "Only instances have
\* properties.".
C16_PropertyLookup ==
  (Finished /\ source.name = "property") =>
    /\ interpreter.out = hist.out \o <<"B.n", ToString(source.a), "field">> \o
                         (IF source.c \in {0, 1} THEN <<>> ELSE <<"after">>)
    /\ stderr = CASE source.c = 0 ->
                       <<ErrorReporter_runtimeError("Undefined property 'zz'.")>>
                  [] source.c = 1 ->
                       <<ErrorReporter_runtimeError("Only instances have properties.")>>
                  [] OTHER -> <<>>
    /\ hadRuntimeError = (source.c \in {0, 1})

\* the property program has read B.n, the bound m and the field n, and has
\* then failed on the property zz
C16_Witness ==
  /\ Finished /\ source.name = "property" /\ source.c = 0 /\ source.a = 2
  /\ interpreter.out = <<"B.n", "2", "field">>
  /\ stderr = <<ErrorReporter_runtimeError("Undefined property 'zz'.")>>
  /\ \E e \in interpreter.calls : e.kind = "fun" /\ e.result = Num(2)

\* C17: a class takes as many arguments as the init that method lookup finds
\* has parameters, and none when there is no init: B, which inherits
\* init(x, y) from A, is made with two arguments and A's init has run on the
\* new instance; B() and C(1) fail with the number expected; every
\* initializer that runs got as many arguments as it has parameters.
C17_ClassArity ==
  /\ \A e \in interpreter.calls :
       e.kind = "init" => Len(e.frame.args) = Len(e.frame.params)
  /\ (Finished /\ source.name = "classArity") =>
       /\ interpreter.out = hist.out \o
            (IF source.c = 0 THEN <<ToString(source.a + 1), "after">> ELSE <<>>)
       /\ stderr = CASE source.c = 0 -> <<>>
                     [] source.c = 1 ->
                          <<ErrorReporter_runtimeError("Expected 2 arguments but got 0.")>>
                     [] OTHER ->
                          <<ErrorReporter_runtimeError("Expected 0 arguments but got 1.")>>
       /\ Len(interpreter.instances) = (IF source.c = 0 THEN 2 ELSE 0)
       /\ source.c = 0 =>
            {e.frame.args : e \in {d \in interpreter.calls : d.kind = "init"}}
              = {<<Num(source.a), Num(1)>>}

\* B(2, 1) has run the init inherited from A, C() has made an instance
\* without an initializer
C17_Witness ==
  /\ Finished /\ source.name = "classArity" /\ source.c = 0 /\ source.a = 2
  /\ interpreter.out = <<"3", "after">>
  /\ Len(interpreter.instances) = 2
  /\ interpreter.instances[1].fields["s"] = Num(3)
  /\ Cardinality({e \in interpreter.calls : e.kind = "new"}) = 2
  /\ Cardinality({e \in interpreter.calls : e.kind = "init"}) = 1

\* C18: a var declared in a block is defined in the block's environment
\* only: the programs  var a = A; { var a = C; print a; } print a;  and the
\* one with a second block inside print the inner values first and the outer
\* value A last, and the global a still has the value A when they end.
C18_BlockVar ==
  (Finished /\ source.name \in {"shadow", "nestedShadow"}) =>
    /\ interpreter.out = hist.out \o
         (IF source.name = "shadow" THEN <<>> ELSE <<"9">>) \o
         <<ToString(source.c), ToString(source.a)>>
    /\ interpreter.envs[Globals].values["a"] = Num(source.a)
    /\ interpreter.environment = Globals
    /\ stderr = <<>>

\* scenario 3 has printed 2 and then 1
C18_Witness ==
  /\ Finished /\ source.name = "shadow" /\ source.a = 1 /\ source.c = 2
  /\ interpreter.out = <<"2", "1">>
  /\ interpreter.envs[Globals].values["a"] = Num(1)
  /\ \E e \in DOMAIN interpreter.envs :
       /\ interpreter.envs[e].enclosing = Globals
       /\ interpreter.envs[e].values = MapSet(EmptyMap, "a", Num(2))

\* C19: a return inside blocks, an if and a loop ends the call of the
\* function it is in and no other: inner(A) yields A and prints nothing,
\* outer goes on after it, prints A and yields nil at its own bare return, so
\* the program prints A, nil, after; and whenever a call ends by a return the
\* caller's environment is the current one again.
C19_ReturnUnwinds ==
  /\ \A e \in interpreter.blockExits :
       (e.from = "call" /\ e.how = "Return") => e.after = e.before
  /\ (Finished /\ source.name = "nestedReturn") =>
       /\ interpreter.out = hist.out \o <<ToString(source.a), "nil", "after">>
       /\ stderr = <<>>
       /\ {[params |-> e.frame.params, how |-> e.how, result |-> e.result] :
             e \in interpreter.calls}
            = {[params |-> <<"n">>, how |-> "Return", result |-> Num(source.a)],
               [params |-> <<"x">>, how |-> "Return", result |-> Nil]}
       /\ interpreter.environment = Globals

\* the program has printed 2, nil and after: both activations ended at
\* their own return
C19_Witness ==
  /\ Finished /\ source.name = "nestedReturn" /\ source.a = 2
  /\ interpreter.out = <<"2", "nil", "after">>
  /\ \E e \in interpreter.blockExits :
       e.from = "call" /\ e.how = "Return" /\ e.before # Globals /\ e.after = e.before

TopLevelReturn == ErrorReporter_resolverError("return", "Can't return from top-level code.")

InitializerReturn ==
  ErrorReporter_resolverError("return", "Can't return a value from an initializer.")

RECURSIVE ReturnErrors(_, _), MethodReturnErrors(_)
\* the diagnostics the return statements of stmts call for, in source order,
\* when stmts stand directly in a body of the kind given
ReturnErrorsOf(stmt, kind) ==
  CASE stmt.k = "Return" ->
         (IF kind = "NONE" THEN <<TopLevelReturn>> ELSE <<>>) \o
         (IF stmt.value.k # "null" /\ kind = "INITIALIZER" THEN <<InitializerReturn>>
          ELSE <<>>)
    [] stmt.k = "Block" -> ReturnErrors(stmt.statements, kind)
    [] stmt.k = "While" -> ReturnErrors(<<stmt.body>>, kind)
    [] stmt.k = "If" -> ReturnErrors(<<stmt.thenBranch>> \o
                          (IF stmt.elseBranch.k = "null" THEN <<>>
                           ELSE <<stmt.elseBranch>>), kind)
    [] stmt.k = "Fun" -> ReturnErrors(stmt.body, "FUNCTION")
    [] stmt.k = "Class" -> MethodReturnErrors(stmt.methods)
    [] OTHER -> <<>>

ReturnErrors(stmts, kind) ==
  IF stmts = <<>> THEN <<>>
  ELSE ReturnErrorsOf(Head(stmts), kind) \o ReturnErrors(Tail(stmts), kind)

MethodReturnErrors(methods) ==
  IF methods = <<>> THEN <<>>
  ELSE ReturnErrors(Head(methods).body,
                    IF Head(methods).name = "init" THEN "INITIALIZER" ELSE "METHOD")
       \o MethodReturnErrors(Tail(methods))

IsReturnError(d) == d \in {TopLevelReturn, InitializerReturn}

\* C20: when the resolver has gone through a program, the diagnostics about
\* return statements of this run are exactly one "Can't return from top-level
\* code." for every return outside every function and method (also after a
\* function declaration) and one "Can't return a value from an initializer."
\* for every return with a value directly in an init, in source order: none
\* for a bare return in init, none for a return in a function nested in init.
C20_ReturnDiagnostics ==
  hist.resolved =>
    SelectSeq(SubSeq(stderr, hist.errs + 1, Len(stderr)), IsReturnError)
      = ReturnErrors(source.stmts, "NONE")

\* the program with a return in a function, one in a block at top level and
\* one after them has got the top-level diagnostic twice and has not run
C20_Witness ==
  /\ Finished /\ source.name = "returns" /\ source.c = 0 /\ hist.resolved
  /\ stderr = <<TopLevelReturn, TopLevelReturn>>
  /\ hadError /\ ~hist.interpretCalled /\ interpreter.out = <<>>

OwnInitializer ==
  ErrorReporter_resolverError("a", "Can't read local variable in its own initializer.")

AlreadyDeclared ==
  ErrorReporter_resolverError("a", "Already a variable with this name in this scope.")

\* C21: var a = a; in a function body or a block is reported as a read in
\* its own initializer, a second declaration in the same local scope (also of
\* a parameter's name) as already declared, hadError is set and nothing of
\* the program runs; at global scope  var a = 1; var a = a;  gets neither
\* diagnostic and runs.
C21_LocalDeclarations ==
  /\ (Finished /\ source.name = "varScopes") =>
       /\ stderr = CASE source.c = 0 -> <<>>
                     [] source.c = 1 -> <<OwnInitializer>>
                     [] OTHER -> <<AlreadyDeclared, AlreadyDeclared, OwnInitializer>>
       /\ hadError = (source.c # 0)
       /\ hist.interpretCalled = (source.c = 0)
       /\ interpreter.out = (IF source.c = 0 THEN <<"1">> ELSE <<>>)
  /\ (Finished /\ source.name = "selfInit") =>
       stderr = <<OwnInitializer>> /\ hadError /\ ~hist.interpretCalled

\* the function that redeclares its parameter and, in a block, a variable,
\* and reads a variable in its own initializer, has got the three diagnostics
C21_Witness ==
  /\ Finished /\ source.name = "varScopes" /\ source.c = 2
  /\ stderr = <<AlreadyDeclared, AlreadyDeclared, OwnInitializer>>
  /\ hadError /\ ~hist.interpretCalled /\ interpreter.out = <<>>

\* the text of a scan, parse or resolver diagnostic as documented: nothing
\* stands between Error and where
Diagnostic(line, where, message) ==
  "[line " \o ToString(line) \o "] Error" \o where \o ": " \o message

\* the text of a runtime diagnostic as documented
RuntimeDiagnostic(line, message) == message \o "\n[line " \o ToString(line) \o "]"

\* C23: a scan error is written [line N] Error: message, a parse or resolver
\* error at a token other than EOF [line N] Error at '<lexeme>': message, and
\* a runtime error as its message, a new line and [line N].
C23_DiagnosticFormat ==
  (Finished /\ mode = "file") =>
    /\ (source.name = "syntax" /\ source.c = 0) =>
         stderr = <<Diagnostic(TokenLine, "", "Unexpected character.")>>
    /\ (source.name = "syntax" /\ source.c = 1) =>
         stderr = <<Diagnostic(TokenLine, " at ';'", "Expect expression.")>>
    /\ (source.name = "varScopes" /\ source.c = 1) =>
         stderr = <<Diagnostic(TokenLine, " at 'a'",
                               "Can't read local variable in its own initializer.")>>
    /\ (source.name = "addMixed" /\ hadRuntimeError) =>
         stderr = <<RuntimeDiagnostic(TokenLine,
                      "Operands must be two numbers or two strings.")>>

\* the scan error of  print "first"; @  has been written with a space
\* between Error and the colon
C23_SpaceAfterError ==
  /\ Finished /\ mode = "file" /\ source.name = "syntax" /\ source.c = 0
  /\ stderr = <<"[line 1] Error : Unexpected character.">>

RECURSIVE Chain(_, _)
\* the environments from env outwards along enclosing, innermost first
Chain(st, env) == IF env = 0 THEN <<>> ELSE <<env>> \o Chain(st, st.envs[env].enclosing)

\* the positions in Chain(st, env) of the environments that bind name
Binders(st, env, name) ==
  {i \in 1..Len(Chain(st, env)) : MapHas(st.envs[Chain(st, env)[i]].values, name)}

\* the names bound somewhere, and one bound nowhere
AssignNames == UNION {DOMAIN interpreter.envs[e].values : e \in 1..Len(interpreter.envs)}
                 \cup {"nobody"}

Assigned == Str("assigned")

\* assign(name, Assigned) on env does what the claim says
AssignsNearest(st, env, name) ==
  LET r == Environment_assign(st, env, name, Assigned)
      binders == Binders(st, env, name)
  IN IF binders = {}
     THEN /\ r.sig = "RuntimeError"
          /\ r.msg = "Undefined variable '" \o name \o "'."
          /\ r.st.envs = st.envs
     ELSE LET nearest == Chain(st, env)[CHOOSE i \in binders : \A j \in binders : i <= j]
          IN /\ r.sig = "ok"
             /\ Len(r.st.envs) = Len(st.envs)
             /\ \A e \in 1..Len(st.envs) :
                  /\ r.st.envs[e].enclosing = st.envs[e].enclosing
                  /\ DOMAIN r.st.envs[e].values = DOMAIN st.envs[e].values
                  /\ \A x \in DOMAIN st.envs[e].values :
                       r.st.envs[e].values[x] =
                         IF e = nearest /\ x = name THEN Assigned
                         ELSE st.envs[e].values[x]

\* C24: on every environment the interpreter has built, assign of a name
\* changes the binding of the nearest environment of the chain that holds the
\* name and nothing else, creating no binding; when no environment of the
\* chain holds it, it fails with Undefined variable 'X'. and every
\* environment is as before.
C24_AssignNearest ==
  \A env \in 1..Len(interpreter.envs) : \A name \in AssignNames :
    AssignsNearest(interpreter, env, name)

\* an environment whose chain binds a name twice, neither time in the
\* environment itself, and another whose chain does not bind some name
C24_Witness ==
  /\ \E env \in 1..Len(interpreter.envs) : \E name \in AssignNames :
       /\ Cardinality(Binders(interpreter, env, name)) >= 2
       /\ 1 \notin Binders(interpreter, env, name)
       /\ Environment_assign(interpreter, env, name, Assigned).sig = "ok"
  /\ \E env \in 2..Len(interpreter.envs) :
       Environment_assign(interpreter, env, "nobody", Assigned).sig = "RuntimeError"

\* the text print writes for the literal L
LiteralText(L) ==
  CASE L = Nil -> "nil"
    [] L.t = "bool" -> IF L.n = 1 THEN "true" ELSE "false"
    [] L.t = "num" -> ToString(L.n)
    [] OTHER -> L.s

\* what the program of SrcLogical must print for the left operand L
LogicalOutput(L) ==
  IF L = Nil \/ L = Bool(FALSE)
  THEN <<"b", "b", LiteralText(L), IF L = Nil THEN "false" ELSE "true", "true">>
  ELSE <<LiteralText(L), "b", "b", "true", IF L = Bool(TRUE) THEN "true" ELSE "false">>

\* C22: with nil or false on the left, or evaluates and yields its right
\* operand and and yields the left one without evaluating the right; with any
\* other left operand (true, 0, the empty string, a string, a number) it is
\* the other way round; the value yielded is the operand itself and a right
\* operand that is not needed prints nothing.
C22_LogicalOperators ==
  (Finished /\ source.name = "logical") =>
    /\ interpreter.out = LogicalOutput(LogicalOperand(source.a, source.c))
    /\ ~hadError /\ ~hadRuntimeError

\* a program with 0 or with the empty string on the left has run
C22_Witness ==
  /\ Finished /\ source.name = "logical"
  /\ LogicalOperand(source.a, source.c) \in {Num(0), Str("")}
  /\ Len(interpreter.out) = 5 /\ interpreter.out[2] = "b" /\ interpreter.out[4] = "true"

\* C25: every depth the resolver hands to interpreter.resolve is at least 0
\* and less than the number of scopes on the stack at that moment, so none
\* is handed over while the stack is empty.
C25_AnnotationDepths ==
  \A n \in hist.resolver.annotations : 0 <= n.depth /\ n.depth < n.scopes

\* a use has been annotated with the outermost of several scopes, and
\* another with the innermost
C25_Witness ==
  /\ hist.resolved
  /\ \E n \in hist.resolver.annotations : n.scopes >= 2 /\ n.depth = n.scopes - 1
  /\ \E n \in hist.resolver.annotations : n.scopes >= 2 /\ n.depth = 0

\* C27: when Resolver.resolve has returned, with or without diagnostics, the
\* scope stack is empty and currentFunction and currentClass are NONE.
C27_ResolverRestored ==
  (hist.resolved /\ ~hist.resolver.crashed) =>
    /\ hist.resolver.scopes = <<>>
    /\ hist.resolver.currentFunction = "NONE"
    /\ hist.resolver.currentClass = "NONE"

\* resolve has returned from a class whose initializer returns a value,
\* with the diagnostic, and from a program of nested functions without one
C27_Witness ==
  /\ hist.resolved /\ ~hist.resolver.crashed /\ hist.resolver.scopes = <<>>
  /\ \/ source.name = "resolverError" /\ source.c = 0 /\ hist.resolver.errors # <<>>
     \/ source.name = "nestedReturn" /\ hist.resolver.errors = <<>>

\* C26: when interpret has returned, normally or after a runtime failure in
\* nested blocks, in a call or in a class declaration with a superclass, the
\* current environment of the interpreter is the global one.
C26_EnvironmentRestored ==
  (Finished /\ hist.interpretCalled) => interpreter.environment = Globals

\* interpret has reported the failure raised two blocks deep, after a class
\* with a superclass was declared and a method of it called in the outer block
C26_Witness ==
  /\ Finished /\ hist.interpretCalled /\ hadRuntimeError
  /\ source.name = "deepFail" /\ source.c = 0
  /\ Len(interpreter.classes) = 2 /\ Len(interpreter.envs) >= 5
  /\ interpreter.environment = Globals

\* every pass of the loop of parse() and of the loop of #block has consumed a
\* token or ended at the EOF token
PassesAdvance == \A p \in parser.passes : p.at > p.start \/ p.atEnd

\* current has never gone beyond the position of the EOF token
ReadsInRange == parser.high < Len(parser.tokens)

\* C28: parse() returns for every token list that ends with EOF; each pass
\* of its loop and of the loop of a block consumes at least one token or
\* ends at EOF, and no position beyond the EOF token is read.
C28_ParseTerminates ==
  /\ <>parser.returned
  /\ [](parser # NoParser => PassesAdvance /\ ReadsInRange)

\* parse() has returned from a list of MaxTokens tokens in which a block had
\* an error caught inside it and parsing went on to a further pass
C28_Witness ==
  /\ parser.returned /\ Len(parser.tokens) = MaxRunTokens + 1
  /\ \E i \in 1..Len(parser.syncs) : ~parser.syncs[i].top
  /\ \E p \in parser.passes : ~p.top /\ p.start > 1 /\ ~p.atEnd

\* the functions of the heap that bind made
BoundFuns == {f \in 1..Len(interpreter.funs) : interpreter.funs[f].boundTo # 0}

\* C29: two instances of a class keep their own fields; a method taken from
\* an instance sees that instance as this whenever it is called, whatever
\* was bound or assigned in between; each binding makes a new function, with
\* an environment of its own that holds this only, and the methods stored in
\* the class stay unbound in the environment of the class declaration.
C29_InstancesApart ==
  (Finished /\ source.name = "instances") =>
    /\ interpreter.out = <<ToString(source.a), ToString(source.c + 10),
                           ToString(source.c + 20), ToString(source.c + 10),
                           "false", "true">>
    /\ interpreter.instances[1].fields = ("v" :> Num(source.c + 20))
    /\ interpreter.instances[2].fields = ("v" :> Num(source.c + 10))
    /\ \A m \in DOMAIN interpreter.classes[1].methods :
         LET f == interpreter.funs[interpreter.classes[1].methods[m]]
         IN f.boundTo = 0 /\ f.closure = Globals
    /\ ~MapHas(interpreter.envs[Globals].values, "this")
    /\ \A f \in BoundFuns :
         LET e == interpreter.envs[interpreter.funs[f].closure]
         IN /\ e.values = ("this" :> InstanceRef(interpreter.funs[f].boundTo))
            /\ e.enclosing = Globals
    /\ \A f, g \in BoundFuns :
         f # g => interpreter.funs[f].closure # interpreter.funs[g].closure

\* the program has run: get was bound to the first instance three times and
\* to the second once, besides the two bindings of init
C29_Witness ==
  /\ Finished /\ source.name = "instances" /\ source.a # source.c + 20
  /\ Len(interpreter.out) = 6
  /\ Cardinality({f \in BoundFuns : interpreter.funs[f].boundTo = 1}) = 4
  /\ Cardinality({f \in BoundFuns : interpreter.funs[f].boundTo = 2}) = 2

\* the names the line promptDefine defines
PromptNames == {"total", "add"}

====
